---- MODULE Spec2Model ----
(***************************************************************************)
(* A model of circuitmcp's Circuit object (src/circuitmcp/circuit.py) and  *)
(* of the calls that reach it.  Python values are modelled as follows:     *)
(*   - an Optional[T] is a sequence of length <= 1: None is <<>>, and a    *)
(*     present value x is <<x>>; a dict key that may be missing is the     *)
(*     same (a missing key is <<>>);                                       *)
(*   - a str is a TLA+ string, f"{a}{b}" is a \o ToString(b);              *)
(*   - a list is a sequence, a dict with string keys a record/function;    *)
(*   - copy.deepcopy is the value itself (TLA+ values are never aliased);   *)
(*     where a caller can write into a returned object, the result also    *)
(*     says which of its objects are the circuit's own (see deepcopy).     *)
(***************************************************************************)
EXTENDS Integers, Sequences, FiniteSets, TLC

VARIABLES
    circuit,   \* the Circuit object: id, name, version, components, history, next_ids
    op,        \* the last call made: its name and arguments
    ret,       \* what that call returned or raised
    issued,    \* log: for each (upper-case) type, the names add_component has returned, in order
    server,    \* the front end the process serves: "api" (api.py over CircuitManager) or "mcp"
    CircuitManager,  \* manager.py's class-level state: _circuits, _next_id, _persistence_path
    disk,      \* the content of the persistence file, None while there is no file
    mcp_server,      \* mcp_server.py's module-level state: circuits, next_circuit_id
    created_ids,     \* log: the ids the create operations have returned, in order
    deleted_ids      \* log: the ids the delete operations have removed

\* The Circuit object on its own, and the registries that hold Circuit objects.
cvars == <<circuit, issued>>
rvars == <<server, CircuitManager, disk, mcp_server, created_ids, deleted_ids>>
vars == <<circuit, op, ret, issued, server, CircuitManager, disk, mcp_server, created_ids, deleted_ids>>

None == <<>>
Some(x) == <<x>>

\* ------------------------------------------------------------------ bounds

\* No call is made that would take the version beyond this (caps the run length).
MaxVersion == 4

\* ------------------------------------------------------------------ inputs

\* circuit.py:47, the types the per-type counters start with.
InitialTypes == {"R", "C", "L", "V", "I", "D", "Q", "M", "X", "U"}

\* str.upper() on the type strings the model submits.
Upper(s) ==
    CASE s = "r" -> "R"
      [] s = "c" -> "C"
      [] s = "u" -> "U"
      [] s = "z" -> "Z"
      [] OTHER   -> s

\* Arguments of direct add_component calls: well-formed ones, a lower-case and an
\* unknown type, and ones no solver primitive can be built from (no nodes, one node
\* for a two-terminal part, no value for a resistor).
AddInputs ==
    { [type |-> "R", nodes |-> <<"1", "2">>, value |-> Some(1000), parameters |-> None],
      [type |-> "r", nodes |-> <<"2", "gnd">>, value |-> Some(2000), parameters |-> None],
      [type |-> "C", nodes |-> <<"2", "0">>, value |-> Some(1), parameters |-> None],
      [type |-> "z", nodes |-> <<"1", "2">>, value |-> None, parameters |-> None],
      [type |-> "U", nodes |-> <<"out", "in-", "in+">>, value |-> None,
       parameters |-> Some([uvx_type |-> "opamp"])],
      [type |-> "R", nodes |-> <<>>, value |-> Some(1000), parameters |-> None],
      [type |-> "R", nodes |-> <<"1">>, value |-> Some(1000), parameters |-> None],
      [type |-> "R", nodes |-> <<"1", "2">>, value |-> None, parameters |-> None] }

\* Entries of a bulk replacement: dicts whose keys may be missing.
EntryR    == [type |-> Some("R"), nodes |-> Some(<<"1", "2">>), value |-> Some(2000),
              parameters |-> None, name |-> None]
Entryc    == [type |-> Some("c"), nodes |-> Some(<<"1", "0">>), value |-> Some(1),
              parameters |-> None, name |-> None]
EntryNamed == [type |-> Some("R"), nodes |-> Some(<<"2", "0">>), value |-> Some(1000),
              parameters |-> None, name |-> Some("Rload")]
EntryNoType  == [type |-> None, nodes |-> Some(<<"1", "2">>), value |-> Some(1000),
                 parameters |-> None, name |-> None]
EntryNoNodes == [type |-> Some("R"), nodes |-> None, value |-> Some(1000),
                 parameters |-> None, name |-> None]

NewComponentLists ==
    { <<>>,
      <<EntryR>>, <<Entryc>>, <<EntryNamed>>,
      <<EntryR, EntryR>>, <<Entryc, EntryR>>, <<EntryR, EntryNamed>>,
      <<EntryNoType>>, <<EntryR, EntryNoNodes>>, <<EntryR, EntryNoType, Entryc>> }

CircuitNames == {"Low-pass", "Divider"}

\* ------------------------------------------------------------------ Circuit

\* Circuit.__init__ (circuit.py:32-47); name is Optional[str].
NewCircuit(circuit_id, name) ==
    [ id |-> circuit_id,
      name |-> IF name = None \/ name = Some("") THEN "Circuit " \o ToString(circuit_id)
               ELSE name[1],
      version |-> 1,
      components |-> <<>>,
      history |-> <<>>,
      next_ids |-> [t \in InitialTypes |-> 1] ]

\* Variants of _increment_version with a plausible slip: the version bumped only
\* when a snapshot is saved; a snapshot saved on every bump.
increment_version_only_on_save(c, save_components) ==
    IF save_components
    THEN [c EXCEPT !.history = Append(c.history, [version |-> c.version,
                                                  components |-> c.components]),
                   !.version = c.version + 1]
    ELSE c

increment_version_always_saves(c, save_components) ==
    [c EXCEPT !.history = Append(c.history, [version |-> c.version,
                                             components |-> c.components]),
              !.version = c.version + 1]

\* A variant of _increment_version with a plausible slip: the version bumped
\* before the snapshot is taken, so that the snapshot carries the new version.
increment_version_before_snapshot(c, save_components) ==
    LET old_state == [version |-> c.version + 1, components |-> c.components]
        h == IF save_components THEN Append(c.history, old_state) ELSE c.history
    IN  [c EXCEPT !.history = h, !.version = c.version + 1]

\* Circuit._increment_version (circuit.py:147-163).
_increment_version(c, save_components) ==
    LET old_state == [version |-> c.version, components |-> c.components]
        h == IF save_components THEN Append(c.history, old_state) ELSE c.history
    IN  [c EXCEPT !.history = h, !.version = c.version + 1]

\* Variants of add_component with a plausible slip: the type kept in the case it
\* was given in; the sequence number taken from the number of live components of
\* the type; the latest history entry kept in step with the live list (a snapshot
\* that aliases it).
add_component_keeps_case(c, component_type, nodes, value, parameters) ==
    LET ct == component_type
        ids == IF ct \in DOMAIN c.next_ids THEN c.next_ids ELSE (ct :> 1) @@ c.next_ids
        comp_id == ids[ct]
        component == [ name |-> ct \o ToString(comp_id), type |-> ct, nodes |-> nodes,
                       value |-> value, parameters |-> parameters ]
    IN  [circuit |-> [c EXCEPT !.next_ids = [ids EXCEPT ![ct] = comp_id + 1],
                               !.components = Append(c.components, component),
                               !.version = c.version + 1],
         component |-> component]

add_component_counts_live(c, component_type, nodes, value, parameters) ==
    LET ct == Upper(component_type)
        comp_id == 1 + Cardinality({i \in 1..Len(c.components) : c.components[i].type = ct})
        component == [ name |-> ct \o ToString(comp_id), type |-> ct, nodes |-> nodes,
                       value |-> value, parameters |-> parameters ]
    IN  [circuit |-> [c EXCEPT !.components = Append(c.components, component),
                               !.version = c.version + 1],
         component |-> component]

add_component_aliased_snapshot(c, component_type, nodes, value, parameters) ==
    LET ct == Upper(component_type)
        ids == IF ct \in DOMAIN c.next_ids THEN c.next_ids ELSE (ct :> 1) @@ c.next_ids
        comp_id == ids[ct]
        component == [ name |-> ct \o ToString(comp_id), type |-> ct, nodes |-> nodes,
                       value |-> value, parameters |-> parameters ]
        live == Append(c.components, component)
        h == c.history
    IN  [circuit |-> [c EXCEPT !.next_ids = [ids EXCEPT ![ct] = comp_id + 1],
                               !.components = live,
                               !.history = IF h = <<>> THEN h
                                           ELSE [h EXCEPT ![Len(h)].components = live],
                               !.version = c.version + 1],
         component |-> component]

\* A variant of add_component with a plausible slip: the component put at the
\* head of the list (components.insert(0, component)).
add_component_at_head(c, component_type, nodes, value, parameters) ==
    LET ct == Upper(component_type)
        ids == IF ct \in DOMAIN c.next_ids THEN c.next_ids ELSE (ct :> 1) @@ c.next_ids
        comp_id == ids[ct]
        component == [ name |-> ct \o ToString(comp_id), type |-> ct, nodes |-> nodes,
                       value |-> value, parameters |-> parameters ]
        c1 == [c EXCEPT !.next_ids = [ids EXCEPT ![ct] = comp_id + 1],
                        !.components = <<component>> \o c.components]
    IN  [circuit |-> _increment_version(c1, FALSE), component |-> component]

\* Circuit.add_component (circuit.py:49-99): the circuit after the call and the
\* component record it returns.
add_component(c, component_type, nodes, value, parameters) ==
    LET ct == Upper(component_type)
        ids == IF ct \in DOMAIN c.next_ids THEN c.next_ids ELSE (ct :> 1) @@ c.next_ids
        comp_id == ids[ct]
        component == [ name |-> ct \o ToString(comp_id), type |-> ct, nodes |-> nodes,
                       value |-> value, parameters |-> parameters ]
        c1 == [c EXCEPT !.next_ids = [ids EXCEPT ![ct] = comp_id + 1],
                        !.components = Append(c.components, component)]
    IN  [circuit |-> _increment_version(c1, FALSE), component |-> component]

\* list.pop(i)
Pop(s, i) == [j \in 1..(Len(s) - 1) |-> IF j < i THEN s[j] ELSE s[j + 1]]

\* A variant of remove_component with a plausible slip: the version bumped after
\* the loop, found or not.
remove_component_bumps_on_miss(c, component_name) ==
    LET hits == {i \in 1..Len(c.components) : c.components[i].name = component_name}
        kept == IF hits = {} THEN c.components
                ELSE Pop(c.components, CHOOSE k \in hits : \A j \in hits : k <= j)
    IN  [circuit |-> [c EXCEPT !.components = kept, !.version = c.version + 1],
         result |-> hits # {}]

\* Circuit.remove_component (circuit.py:101-119).
remove_component(c, component_name) ==
    LET hits == {i \in 1..Len(c.components) : c.components[i].name = component_name}
    IN  IF hits = {} THEN [circuit |-> c, result |-> FALSE]
        ELSE LET i == CHOOSE k \in hits : \A j \in hits : k <= j
                 c1 == [c EXCEPT !.components = Pop(c.components, i)]
             IN  [circuit |-> _increment_version(c1, FALSE), result |-> TRUE]

\* A variant of the loop below with a plausible slip: comp.get("value") left out
\* of the call, so that every component is stored without its value.
RECURSIVE add_new_components_drops_value(_, _, _)
add_new_components_drops_value(c, comps, added) ==
    IF comps = <<>> THEN [circuit |-> c, exc |-> "none", added |-> added]
    ELSE LET comp == Head(comps) IN
         IF comp.type = None \/ comp.nodes = None
         THEN [circuit |-> c, exc |-> "KeyError", added |-> added]
         ELSE LET r == add_component(c, comp.type[1], comp.nodes[1], None, comp.parameters)
              IN  add_new_components_drops_value(r.circuit, Tail(comps),
                                                 Append(added, r.component))

\* The loop of Circuit.update_components (circuit.py:135-145): comp["type"] and
\* comp["nodes"] raise KeyError on a missing key, and the loop stops there.
RECURSIVE add_new_components(_, _, _)
add_new_components(c, comps, added) ==
    IF comps = <<>> THEN [circuit |-> c, exc |-> "none", added |-> added]
    ELSE LET comp == Head(comps) IN
         IF comp.type = None \/ comp.nodes = None
         THEN [circuit |-> c, exc |-> "KeyError", added |-> added]
         ELSE LET r == add_component(c, comp.type[1], comp.nodes[1], comp.value,
                                     comp.parameters)
              IN  add_new_components(r.circuit, Tail(comps), Append(added, r.component))

\* Variants of update_components with a plausible slip: the version bumped once
\* for the whole replacement; the old components not cleared; the name counters
\* started again for the new list.
update_components_restarts_counters(c, new_components) ==
    LET c1 == _increment_version(c, TRUE)
        c2 == [c1 EXCEPT !.components = <<>>, !.next_ids = [t \in DOMAIN @ |-> 1]]
    IN  add_new_components(c2, new_components, <<>>)

update_components_one_bump(c, new_components) ==
    LET c1 == _increment_version(c, TRUE)
        r == add_new_components([c1 EXCEPT !.components = <<>>], new_components, <<>>)
    IN  [r EXCEPT !.circuit.version = c1.version]

update_components_keeps_old(c, new_components) ==
    add_new_components(_increment_version(c, TRUE), new_components, <<>>)

\* Circuit.update_components (circuit.py:121-145).
update_components(c, new_components) ==
    LET c1 == _increment_version(c, TRUE)
        c2 == [c1 EXCEPT !.components = <<>>]
    IN  add_new_components(c2, new_components, <<>>)

\* copy.deepcopy of a list of dicts: the copy, and which of the copy's objects are
\* the original's own ("list" the list object, "items" the dicts in it): none.
deepcopy(x) == [value |-> x, shared |-> {}]

\* A variant of to_dict with a plausible slip: the live list copied one level deep
\* (list(self.components)), so that the dicts in it are the circuit's own.
to_dict_shallow_copy(c) ==
    [id |-> c.id, name |-> c.name, version |-> c.version,
     components |-> c.components, shared |-> {"items"}]

\* Circuit.to_dict (circuit.py:165-177).  `shared` is not a key of the dict: it
\* records which objects of the returned component list are the circuit's own.
to_dict(c) ==
    LET components == deepcopy(c.components) IN
    [id |-> c.id, name |-> c.name, version |-> c.version,
     components |-> components.value, shared |-> components.shared]

\* ------------------------------------------------------------------ simulate

\* str.lower() on the node and analysis strings the model submits.
Lower(s) ==
    CASE s = "GND"    -> "gnd"
      [] s = "Ground" -> "ground"
      [] s = "DC"     -> "dc"
      [] OTHER        -> s

\* SpiceCircuit.gnd, the solver's ground reference (node 0 of the netlist).
gnd == "0"

\* A variant of normalize_node with a plausible slip: the node compared as given,
\* not lower-cased.
normalize_node_as_given(node) ==
    IF node # "" /\ node \in {"0", "gnd", "ground"} THEN gnd ELSE node

\* normalize_node (circuit.py:204-207).
normalize_node(node) ==
    IF node # "" /\ Lower(node) \in {"0", "gnd", "ground"} THEN gnd ELSE node

\* dict.get(key, default) on a parameters dict.
Get(params, key, default) == IF key \in DOMAIN params THEN params[key] ELSE default

Prim(kind, name, nodes) == [prim |-> kind, name |-> name, nodes |-> nodes]

\* hasattr(spice_circuit, f"model_{model_name}") (circuit.py:271, 279): the netlist
\* object gets no attribute of that name when a model is declared.
HasModelAttr(spice, model_name) == FALSE

\* spice_circuit.model(...) then the device (circuit.py:268-281); declaring a model
\* name the netlist already holds is refused by the netlist.
DeclareAndInstantiate(spice, model_name, kind, name, nodes) ==
    IF HasModelAttr(spice, model_name)
    THEN [exc |-> FALSE,
          spice |-> [spice EXCEPT !.elements = Append(@, Prim(kind, name, nodes))]]
    ELSE IF model_name \in spice.models
    THEN [exc |-> TRUE, spice |-> spice]
    ELSE [exc |-> FALSE,
          spice |-> [elements |-> Append(spice.elements, Prim(kind, name, nodes)),
                     models |-> spice.models \cup {model_name}]]

\* A variant of the op-amp branch with a plausible slip: the internal nodes named
\* without the component's name.
opamp_unnamed_internal_nodes(name, sn) ==
    IF Len(sn) >= 3
    THEN << Prim("R", name \o "_in_p", <<sn[3], "int_1">>),
            Prim("R", name \o "_in_n", <<sn[2], "int_2">>),
            Prim("VCVS", name, <<sn[1], gnd, "int_1", "int_2">>) >>
    ELSE <<>>

\* The op-amp branch (circuit.py:286-300) for the component named name with
\* normalised nodes sn: two input resistors to internal nodes and a controlled
\* source from the internal pair to the output; nothing with fewer than 3 nodes.
opamp(name, sn) ==
    IF Len(sn) >= 3
    THEN LET int_node1 == "int_" \o name \o "_1"
             int_node2 == "int_" \o name \o "_2"
         IN  << Prim("R", name \o "_in_p", <<sn[3], int_node1>>),
                Prim("R", name \o "_in_n", <<sn[2], int_node2>>),
                Prim("VCVS", name, <<sn[1], gnd, int_node1, int_node2>>) >>
    ELSE <<>>

\* A variant of the U branch with a plausible slip: a uvx_type that is none of the
\* four raises.
translate_uvx_rejects_unknown(name, sn, params) ==
    LET uvx_type == Get(params, "uvx_type", "opamp")
        n == Len(sn)
    IN  CASE uvx_type = "opamp" -> [exc |-> FALSE, prims |-> opamp(name, sn)]
          [] uvx_type = "comparator" ->
                IF n < 3 THEN [exc |-> TRUE, prims |-> <<>>]
                ELSE [exc |-> FALSE, prims |-> <<Prim("B", name, <<sn[1], gnd>>)>>]
          [] uvx_type \in {"adc", "dac"} ->
                IF n < 2 THEN [exc |-> TRUE, prims |-> <<>>]
                ELSE [exc |-> FALSE, prims |-> <<Prim("B", name, <<sn[1], gnd>>)>>]
          [] OTHER -> [exc |-> TRUE, prims |-> <<>>]

\* The U branch (circuit.py:283-333): the primitives emitted, or exc when an index
\* runs past the node list.  A uvx_type that is none of the four emits nothing.
translate_uvx(name, sn, params) ==
    LET uvx_type == Get(params, "uvx_type", "opamp")
        n == Len(sn)
    IN  CASE uvx_type = "opamp" -> [exc |-> FALSE, prims |-> opamp(name, sn)]
          [] uvx_type = "comparator" ->
                IF n < 3 THEN [exc |-> TRUE, prims |-> <<>>]
                ELSE [exc |-> FALSE, prims |-> <<Prim("B", name, <<sn[1], gnd>>)>>]
          [] uvx_type \in {"adc", "dac"} ->
                IF n < 2 THEN [exc |-> TRUE, prims |-> <<>>]
                ELSE [exc |-> FALSE, prims |-> <<Prim("B", name, <<sn[1], gnd>>)>>]
          [] OTHER -> [exc |-> FALSE, prims |-> <<>>]

\* A variant of translate_component with a plausible slip: a type without a branch
\* raises (else: raise ValueError("Unsupported component type")).
translate_component_rejects_unknown_type(comp, spice) ==
    LET nodes == comp.nodes
        n == Len(nodes)
        sn == [i \in 1..n |-> normalize_node(nodes[i])]
        value == comp.value
        params == IF comp.parameters = None THEN <<>> ELSE comp.parameters[1]
        emit(ps) == [exc |-> FALSE, spice |-> [spice EXCEPT !.elements = @ \o ps]]
        fail == [exc |-> TRUE, spice |-> spice]
        two(kind) == IF n < 2 \/ value = None THEN fail
                     ELSE emit(<<Prim(kind, comp.name, <<sn[1], sn[2]>>)>>)
    IN  CASE comp.type \in {"R", "C", "L", "I"} -> two(comp.type)
          [] comp.type = "V" ->
                IF "type" \in DOMAIN params /\ params["type"] \in {"sine", "pulse"}
                THEN IF n < 2 THEN fail
                     ELSE emit(<<Prim(params["type"], comp.name, <<sn[1], sn[2]>>)>>)
                ELSE two("V")
          [] comp.type = "D" ->
                IF n < 2 THEN fail
                ELSE DeclareAndInstantiate(spice, Get(params, "model", "default_diode"),
                                           "D", comp.name, <<sn[1], sn[2]>>)
          [] comp.type = "Q" ->
                IF n < 3 THEN fail
                ELSE DeclareAndInstantiate(spice, Get(params, "model", "default_npn"),
                                           "Q", comp.name, <<sn[1], sn[2], sn[3]>>)
          [] comp.type = "U" ->
                LET u == translate_uvx(comp.name, sn, params) IN
                IF u.exc THEN fail ELSE emit(u.prims)
          [] OTHER -> fail

\* One pass of the translation loop body (circuit.py:197-336) for component comp:
\* exc is TRUE when the body raises: an index past the end of the node list
\* (IndexError), a unit applied to a missing value (value @ u_X converts its left
\* operand to a number, and None has none: TypeError), or a netlist refusal.  The
\* except clause turns each into ValueError("Error adding component <name>: ...").
translate_component(comp, spice) ==
    LET nodes == comp.nodes
        n == Len(nodes)
        sn == [i \in 1..n |-> normalize_node(nodes[i])]
        value == comp.value
        params == IF comp.parameters = None THEN <<>> ELSE comp.parameters[1]
        emit(ps) == [exc |-> FALSE, spice |-> [spice EXCEPT !.elements = @ \o ps]]
        fail == [exc |-> TRUE, spice |-> spice]
        two(kind) == IF n < 2 \/ value = None THEN fail
                     ELSE emit(<<Prim(kind, comp.name, <<sn[1], sn[2]>>)>>)
    IN  CASE comp.type \in {"R", "C", "L", "I"} -> two(comp.type)
          [] comp.type = "V" ->
                IF "type" \in DOMAIN params /\ params["type"] \in {"sine", "pulse"}
                THEN IF n < 2 THEN fail
                     ELSE emit(<<Prim(params["type"], comp.name, <<sn[1], sn[2]>>)>>)
                ELSE two("V")
          [] comp.type = "D" ->
                IF n < 2 THEN fail
                ELSE DeclareAndInstantiate(spice, Get(params, "model", "default_diode"),
                                           "D", comp.name, <<sn[1], sn[2]>>)
          [] comp.type = "Q" ->
                IF n < 3 THEN fail
                ELSE DeclareAndInstantiate(spice, Get(params, "model", "default_npn"),
                                           "Q", comp.name, <<sn[1], sn[2], sn[3]>>)
          [] comp.type = "U" ->
                LET u == translate_uvx(comp.name, sn, params) IN
                IF u.exc THEN fail ELSE emit(u.prims)
          [] OTHER -> emit(<<>>)

\* A variant of the translation loop with a plausible slip: a component that
\* raises is logged and left out, and the loop goes on.
RECURSIVE translate_skips_failures(_, _)
translate_skips_failures(comps, spice) ==
    IF comps = <<>> THEN [exc |-> "none", component |-> "", spice |-> spice]
    ELSE LET r == translate_component(Head(comps), spice) IN
         translate_skips_failures(Tail(comps), IF r.exc THEN spice ELSE r.spice)

\* The translation loop (circuit.py:197-336): stops at the first component that raises.
RECURSIVE translate(_, _)
translate(comps, spice) ==
    IF comps = <<>> THEN [exc |-> "none", component |-> "", spice |-> spice]
    ELSE LET r == translate_component(Head(comps), spice) IN
         IF r.exc THEN [exc |-> "ValueError", component |-> Head(comps).name, spice |-> spice]
         ELSE translate(Tail(comps), r.spice)

\* The parameter checks of the dispatch (circuit.py:346-460), made after the
\* simulator exists: "ok", or the message of the ValueError raised.
CheckAnalysis(analysis, sim_params) ==
    CASE analysis = "operating_point" -> "ok"
      [] analysis = "dc" ->
            IF sim_params.source = None \/ sim_params.start = None
               \/ sim_params.stop = None \/ sim_params.step = None
            THEN "DC analysis requires parameters" ELSE "ok"
      [] analysis = "ac" -> "ok"
      [] analysis = "transient" ->
            IF sim_params.step_time = None \/ sim_params.end_time = None
            THEN "Transient analysis requires parameters" ELSE "ok"
      [] OTHER -> "Unsupported analysis type"

\* What the solver hands back for a netlist: the names in its node table (every
\* node of the netlist, with or without the ground reference itself) and in its
\* branch table (the voltage sources), each with one value per point.
solver_output(elements, solver) ==
    LET nodes == UNION {{elements[e].nodes[i] : i \in 1..Len(elements[e].nodes)} :
                        e \in 1..Len(elements)}
    IN  [nodes |-> IF solver = "ok_reports_ground" THEN nodes ELSE nodes \ {gnd},
         branches |-> {elements[e].name : e \in {i \in 1..Len(elements) :
                                                    elements[i].prim \in {"V", "sine", "pulse"}}}]

\* The values of a waveform, one per point: real ones, and the complex ones of an
\* ac analysis with abs() and degrees(atan2(imag, real)) of each.
RealSamples == <<5, 3>>
ComplexSamples == << [real |-> 1, imag |-> 0], [real |-> 0, imag |-> -2] >>
abs(v) == CASE v = [real |-> 1, imag |-> 0] -> 1
            [] v = [real |-> 0, imag |-> -2] -> 2
degrees_atan2(v) == CASE v = [real |-> 1, imag |-> 0] -> 0
                      [] v = [real |-> 0, imag |-> -2] -> -90

\* A variant of the filter below with a plausible slip: only the name "gnd" dropped.
kept_nodes_named_gnd_only(reported) == reported \ {"gnd"}

\* The filter on node names (circuit.py:354, 387, 416, 451).
kept_nodes(reported) == reported \ {"0", "gnd"}

\* The results dict built from a successful analysis (circuit.py:346-457).
build_results(analysis, sim_params, output) ==
    LET nodes == kept_nodes(output.nodes)
        points == 1..Len(RealSamples)
        reals == [i \in points |-> RealSamples[i]]
        polar == [magnitude |-> [i \in points |-> abs(ComplexSamples[i])],
                  phase |-> [i \in points |-> degrees_atan2(ComplexSamples[i])]]
    IN  CASE analysis = "operating_point" ->
                [nodes |-> [n \in nodes |-> RealSamples[1]],
                 branches |-> [b \in output.branches |-> RealSamples[1]]]
          [] analysis = "dc" ->
                [sweep |-> [source |-> sim_params.source[1], values |-> reals],
                 nodes |-> [n \in nodes |-> reals],
                 branches |-> [b \in output.branches |-> reals]]
          [] analysis = "ac" ->
                [frequency |-> [values |-> reals],
                 nodes |-> [n \in nodes |-> polar],
                 branches |-> [b \in output.branches |-> polar]]
          [] analysis = "transient" ->
                [time |-> reals,
                 nodes |-> [n \in nodes |-> reals],
                 branches |-> [b \in output.branches |-> reals]]

\* A variant of simulate with a plausible slip: the normalised nodes written back
\* into the components (comp["nodes"] = spice_nodes).
simulate_normalises_in_place(c, analysis, sim_params, solver) ==
    LET t == translate(c.components, [elements |-> <<>>, models |-> {}])
        a == Lower(analysis)
        check == CheckAnalysis(a, sim_params)
        out(exc, msg, created, called) ==
            [exc |-> exc, msg |-> msg, component |-> t.component,
             netlist |-> t.spice.elements, solver_created |-> created,
             solver_called |-> called,
             circuit |-> [c EXCEPT !.components =
                             [i \in 1..Len(c.components) |->
                                 [c.components[i] EXCEPT !.nodes =
                                     [k \in 1..Len(c.components[i].nodes) |->
                                         normalize_node(c.components[i].nodes[k])]]]],
             results |-> IF exc = "none"
                         THEN Some(build_results(a, sim_params,
                                                 solver_output(t.spice.elements, solver)))
                         ELSE None]
    IN  IF t.exc # "none" THEN out("ValueError", "Error adding component", FALSE, FALSE)
        ELSE IF solver = "setup_fails" THEN out("Exception", "solver", FALSE, FALSE)
        ELSE IF check # "ok" THEN out("ValueError", "Simulation failed: " \o check, TRUE, FALSE)
        ELSE IF solver = "analysis_fails"
             THEN out("ValueError", "Simulation failed: solver", TRUE, TRUE)
        ELSE out("none", "", TRUE, TRUE)

\* Circuit.simulate (circuit.py:179-466).  solver is what the external solver does
\* in this call: "ok" or "ok_reports_ground" (it answers, its node table without
\* or with the ground reference), "setup_fails" (NgSpiceShared.new_instance
\* raises) or "analysis_fails" (the analysis call raises).  The outcome records
\* the exception that leaves simulate ("Exception" is the solver's own, raised
\* outside the try block), the netlist built, whether the solver was set up and
\* run, the results returned, and the circuit as the call leaves it.
simulate(c, analysis, sim_params, solver) ==
    LET t == translate(c.components, [elements |-> <<>>, models |-> {}])
        a == Lower(analysis)
        check == CheckAnalysis(a, sim_params)
        out(exc, msg, created, called) ==
            [exc |-> exc, msg |-> msg, component |-> t.component,
             netlist |-> t.spice.elements, solver_created |-> created,
             solver_called |-> called, circuit |-> c,
             results |-> IF exc = "none"
                         THEN Some(build_results(a, sim_params,
                                                 solver_output(t.spice.elements, solver)))
                         ELSE None]
    IN  IF t.exc # "none" THEN out("ValueError", "Error adding component", FALSE, FALSE)
        ELSE IF solver = "setup_fails" THEN out("Exception", "solver", FALSE, FALSE)
        ELSE IF check # "ok" THEN out("ValueError", "Simulation failed: " \o check, TRUE, FALSE)
        ELSE IF solver = "analysis_fails"
             THEN out("ValueError", "Simulation failed: solver", TRUE, TRUE)
        ELSE out("none", "", TRUE, TRUE)

NoParams == [source |-> None, start |-> None, stop |-> None, step |-> None,
             step_time |-> None, end_time |-> None]

SimRequests ==
    { [analysis |-> "operating_point", params |-> NoParams],
      [analysis |-> "DC", params |-> [NoParams EXCEPT !.source = Some("V1"), !.start = Some(0),
                                                      !.stop = Some(5), !.step = Some(1)]],
      [analysis |-> "dc", params |-> [NoParams EXCEPT !.source = Some("V1"), !.start = Some(0),
                                                      !.stop = Some(5)]],
      [analysis |-> "transient", params |-> [NoParams EXCEPT !.step_time = Some(1)]],
      [analysis |-> "noise", params |-> NoParams] }

SolverOutcomes == {"ok", "setup_fails", "analysis_fails"}

\* ------------------------------------------------------------------ the log

\* The names returned by add_component, appended to the per-type log.
RECURSIVE Log(_, _)
Log(log, added) ==
    IF added = <<>> THEN log
    ELSE LET t == Head(added).type
             l == IF t \in DOMAIN log THEN log ELSE (t :> <<>>) @@ log
         IN  Log([l EXCEPT ![t] = Append(l[t], Head(added).name)], Tail(added))

\* ------------------------------------------------------------------ actions

\* manager.py:18-20 and mcp_server.py:40-41: both registries empty, first id 1.
NewRegistries(persistence_path) ==
    /\ CircuitManager = [_circuits |-> <<>>, _next_id |-> 1,
                         _persistence_path |-> persistence_path]
    /\ disk = None
    /\ mcp_server = [circuits |-> <<>>, next_circuit_id |-> 1]
    /\ created_ids = <<>>
    /\ deleted_ids = {}

\* One Circuit object used as a library object; no front end is serving.
Init ==
    /\ circuit = NewCircuit(1, None)
    /\ op = [name |-> "__init__"]
    /\ ret = [exc |-> "none"]
    /\ issued = [t \in InitialTypes |-> <<>>]
    /\ server = "none"
    /\ NewRegistries(None)

AddComponent ==
    \E a \in AddInputs :
        LET r == add_component(circuit, a.type, a.nodes, a.value, a.parameters) IN
        /\ circuit.version < MaxVersion
        /\ circuit' = r.circuit
        /\ op' = [name |-> "add_component", type |-> a.type, nodes |-> a.nodes,
                  value |-> a.value, parameters |-> a.parameters]
        /\ ret' = [exc |-> "none", component |-> r.component]
        /\ issued' = Log(issued, <<r.component>>)
        /\ UNCHANGED rvars

\* Names a caller may ask to remove: every name issued so far and one never issued.
RemovableNames == {"X1"} \cup UNION {{issued[t][i] : i \in 1..Len(issued[t])} : t \in DOMAIN issued}

RemoveComponent ==
    \E n \in RemovableNames :
        LET r == remove_component(circuit, n) IN
        /\ circuit.version < MaxVersion
        /\ circuit' = r.circuit
        /\ op' = [name |-> "remove_component", component_name |-> n]
        /\ ret' = [exc |-> "none", result |-> r.result]
        /\ UNCHANGED <<issued, rvars>>

UpdateComponents ==
    \E new \in NewComponentLists :
        LET r == update_components(circuit, new) IN
        /\ circuit.version + 1 + Len(new) <= MaxVersion
        /\ circuit' = r.circuit
        /\ op' = [name |-> "update_components", new_components |-> new]
        /\ ret' = [exc |-> r.exc]
        /\ issued' = Log(issued, r.added)
        /\ UNCHANGED rvars

\* api.rename_circuit (api.py:128-135): circuit.name = name, then to_dict().
Rename ==
    \E n \in CircuitNames :
        /\ circuit' = [circuit EXCEPT !.name = n]
        /\ op' = [name |-> "rename", new_name |-> n]
        /\ ret' = [exc |-> "none", dict |-> to_dict(circuit')]
        /\ UNCHANGED <<issued, rvars>>

ToDict ==
    /\ op' = [name |-> "to_dict"]
    /\ ret' = [exc |-> "none", dict |-> to_dict(circuit)]
    /\ UNCHANGED <<circuit, issued, rvars>>

\* What a caller may do to a dict that to_dict returned: append to its component
\* list, or write a field of a component in it.
SnapshotWrites == {"append", "set_value"}

Stray == [name |-> "R99", type |-> "R", nodes |-> <<"9", "0">>, value |-> Some(99),
          parameters |-> None]

WriteTo(components, how) ==
    IF how = "append" THEN Append(components, Stray)
    ELSE [components EXCEPT ![1].value = Some(99)]

\* The caller writes into the dict the last call returned; the write lands in the
\* circuit's own objects where the dict shares them.
WriteSnapshot ==
    \E how \in SnapshotWrites :
        LET part == IF how = "append" THEN "list" ELSE "items" IN
        /\ op.name \in {"to_dict", "rename"}
        /\ how = "set_value" => ret.dict.components # <<>>
        /\ op' = [name |-> "write_snapshot", how |-> how]
        /\ ret' = [ret EXCEPT !.dict.components = WriteTo(@, how)]
        /\ circuit' = IF part \in ret.dict.shared
                      THEN [circuit EXCEPT !.components = WriteTo(@, how)]
                      ELSE circuit
        /\ UNCHANGED <<issued, rvars>>

Simulate ==
    \E req \in SimRequests, solver \in SolverOutcomes :
        /\ op' = [name |-> "simulate", analysis |-> req.analysis, sim_params |-> req.params]
        /\ ret' = simulate(circuit, req.analysis, req.params, solver)
        /\ circuit' = ret'.circuit
        /\ UNCHANGED <<issued, rvars>>

Next ==
    \/ AddComponent
    \/ RemoveComponent
    \/ UpdateComponents
    \/ Rename
    \/ ToDict
    \/ WriteSnapshot
    \/ Simulate

Spec == Init /\ [][Next]_vars

\* ------------------------------------------------------------------ long runs of adds

\* No component is added to a live list of this length (caps the run length).
MaxAdds == 12

\* Type strings add_component is called with: any str is taken (circuit.py:69-73),
\* here a type code and a string that is a type code followed by a digit.
TypeStrings == {"R", "R1"}

AddOfType ==
    \E t \in TypeStrings :
        LET r == add_component(circuit, t, <<"1", "0">>, Some(1000), None) IN
        /\ Len(circuit.components) < MaxAdds
        /\ circuit' = r.circuit
        /\ op' = [name |-> "add_component", type |-> t, nodes |-> <<"1", "0">>,
                  value |-> Some(1000), parameters |-> None]
        /\ ret' = [exc |-> "none", component |-> r.component]
        /\ issued' = Log(issued, <<r.component>>)
        /\ UNCHANGED rvars

SpecAdds == Init /\ [][AddOfType]_vars

\* ------------------------------------------------------------------ simulate runs

\* No component is added to a live list of this length (caps the run length).
MaxParts == 2

\* Arguments of add_component for circuits to simulate: parts on ground nodes in
\* several spellings, a source, an op-amp, a U part of an unknown kind, and parts
\* no primitive can be built from (one node, no value).
Parts ==
    { [type |-> "R", nodes |-> <<"1", "2">>, value |-> Some(1000), parameters |-> None],
      [type |-> "R", nodes |-> <<"2", "GND">>, value |-> Some(2000), parameters |-> None],
      [type |-> "C", nodes |-> <<"2", "Ground">>, value |-> Some(1), parameters |-> None],
      [type |-> "V", nodes |-> <<"1", "gnd">>, value |-> Some(5), parameters |-> None],
      [type |-> "U", nodes |-> <<"out", "2", "0">>, value |-> None,
       parameters |-> Some([uvx_type |-> "opamp"])],
      [type |-> "U", nodes |-> <<"1", "2">>, value |-> None,
       parameters |-> Some([uvx_type |-> "pll"])],
      [type |-> "R", nodes |-> <<"1">>, value |-> Some(1000), parameters |-> None],
      [type |-> "R", nodes |-> <<"1", "2">>, value |-> None, parameters |-> None] }

AddPart ==
    \E a \in Parts :
        LET r == add_component(circuit, a.type, a.nodes, a.value, a.parameters) IN
        /\ Len(circuit.components) < MaxParts
        /\ circuit' = r.circuit
        /\ op' = [name |-> "add_component", type |-> a.type, nodes |-> a.nodes,
                  value |-> a.value, parameters |-> a.parameters]
        /\ ret' = [exc |-> "none", component |-> r.component]
        /\ issued' = Log(issued, <<r.component>>)
        /\ UNCHANGED rvars

SimulateRequests == SimRequests \cup {[analysis |-> "ac", params |-> NoParams]}

\* Circuit.simulate called with a request, whatever the solver then does.
SimulateParts ==
    \E req \in SimulateRequests, solver \in SolverOutcomes \cup {"ok_reports_ground"} :
        /\ op' = [name |-> "simulate", analysis |-> req.analysis, sim_params |-> req.params,
                  solver |-> solver]
        /\ ret' = simulate(circuit, req.analysis, req.params, solver)
        /\ circuit' = ret'.circuit
        /\ UNCHANGED <<issued, rvars>>

NextSimulate ==
    \/ AddPart
    \/ SimulateParts

SpecSimulate == Init /\ [][NextSimulate]_vars

\* ------------------------------------------------------------------ runs with device models

\* Arguments of add_component for circuits with diodes and transistors: a diode and
\* a transistor on their default models, a diode on a model of its own, a resistor.
ModelParts ==
    { [type |-> "D", nodes |-> <<"1", "2">>, value |-> None, parameters |-> None],
      [type |-> "D", nodes |-> <<"2", "0">>, value |-> None,
       parameters |-> Some([model |-> "1N4148"])],
      [type |-> "Q", nodes |-> <<"1", "2", "0">>, value |-> None, parameters |-> None],
      [type |-> "R", nodes |-> <<"1", "2">>, value |-> Some(1000), parameters |-> None] }

AddModelPart ==
    \E a \in ModelParts :
        LET r == add_component(circuit, a.type, a.nodes, a.value, a.parameters) IN
        /\ Len(circuit.components) < MaxParts
        /\ circuit' = r.circuit
        /\ op' = [name |-> "add_component", type |-> a.type, nodes |-> a.nodes,
                  value |-> a.value, parameters |-> a.parameters]
        /\ ret' = [exc |-> "none", component |-> r.component]
        /\ issued' = Log(issued, <<r.component>>)
        /\ UNCHANGED rvars

NextModels ==
    \/ AddModelPart
    \/ SimulateParts

SpecModels == Init /\ [][NextModels]_vars

\* ------------------------------------------------------------------ runs with parts without a rule

\* Arguments of add_component for circuits with parts the translation loop has no
\* branch for (M, X, a type that is no type code), U parts with too few nodes for
\* their kind, and a resistor.
OddParts ==
    { [type |-> "M", nodes |-> <<"1", "2", "0">>, value |-> None, parameters |-> None],
      [type |-> "X", nodes |-> <<"1", "2">>, value |-> None, parameters |-> None],
      [type |-> "z", nodes |-> <<"1", "2">>, value |-> Some(1), parameters |-> None],
      [type |-> "U", nodes |-> <<"out", "2">>, value |-> None, parameters |-> None],
      [type |-> "U", nodes |-> <<"out", "2">>, value |-> None,
       parameters |-> Some([uvx_type |-> "comparator"])],
      [type |-> "U", nodes |-> <<"out">>, value |-> None,
       parameters |-> Some([uvx_type |-> "adc"])],
      [type |-> "U", nodes |-> <<"out">>, value |-> None,
       parameters |-> Some([uvx_type |-> "dac"])],
      [type |-> "R", nodes |-> <<"1", "2">>, value |-> Some(1000), parameters |-> None] }

AddOddPart ==
    \E a \in OddParts :
        LET r == add_component(circuit, a.type, a.nodes, a.value, a.parameters) IN
        /\ Len(circuit.components) < MaxParts
        /\ circuit' = r.circuit
        /\ op' = [name |-> "add_component", type |-> a.type, nodes |-> a.nodes,
                  value |-> a.value, parameters |-> a.parameters]
        /\ ret' = [exc |-> "none", component |-> r.component]
        /\ issued' = Log(issued, <<r.component>>)
        /\ UNCHANGED rvars

NextOdd ==
    \/ AddOddPart
    \/ SimulateParts

SpecOdd == Init /\ [][NextOdd]_vars

\* ------------------------------------------------------------------ registries

\* No create or mutation is started once the ids issued plus the version steps of
\* the live circuits reach this (caps the run length).
MaxWork == 3

RECURSIVE VersionSteps(_, _)
VersionSteps(circs, ids) ==
    IF ids = {} THEN 0
    ELSE LET cid == CHOOSE x \in ids : TRUE
         IN  (circs[cid].version - 1) + VersionSteps(circs, ids \ {cid})

Work(circs, next) == (next - 1) + VersionSteps(circs, DOMAIN circs)

\* dict.pop / del on the registry dict.
Del(circs, cid) == [x \in DOMAIN circs \ {cid} |-> circs[x]]

\* json.dump of a to_dict() result: the dict's keys and values.
json(d) == [id |-> d.id, name |-> d.name, version |-> d.version, components |-> d.components]

\* json.dump writes the int keys of a dict as strings; int() reads them back.
str(k) == ToString(k)
int(s) == CHOOSE k \in 0..99 : str(k) = s

\* CircuitManager._save_to_disk (manager.py:151-172): the file after the call, a
\* JSON object whose "circuits" member is keyed by the ids as strings.
_save_to_disk(cls, file) ==
    IF cls._persistence_path = None THEN file
    ELSE Some([next_id |-> cls._next_id,
               circuits |-> [key \in {str(cid) : cid \in DOMAIN cls._circuits} |->
                                json(to_dict(cls._circuits[int(key)]))]])

\* The loop over the initial components (manager.py:57-64, mcp_server.py:65-72):
\* "if components:" skips None and [], and the loop body is that of
\* update_components.
add_initial_components(c, components) ==
    IF components = None THEN [circuit |-> c, exc |-> "none", added |-> <<>>]
    ELSE add_new_components(c, components[1], <<>>)

\* A variant of create_circuit with a plausible slip: the lowest id not in use
\* taken, instead of the counter's value.
create_circuit_lowest_free(cls, file, name, components) ==
    LET cid == CHOOSE k \in 1..(Cardinality(DOMAIN cls._circuits) + 1) :
                   /\ k \notin DOMAIN cls._circuits
                   /\ \A j \in 1..(k - 1) : j \in DOMAIN cls._circuits
        cls1 == [cls EXCEPT !._next_id = cls._next_id + 1]
        built == add_initial_components(NewCircuit(cid, name), components)
    IN  IF built.exc # "none"
        THEN [cls |-> cls1, file |-> file, exc |-> built.exc, circuit |-> None]
        ELSE LET cls2 == [cls1 EXCEPT !._circuits = (cid :> built.circuit) @@ cls1._circuits]
             IN  [cls |-> cls2, file |-> _save_to_disk(cls2, file), exc |-> "none",
                  circuit |-> Some(built.circuit)]

\* A variant of create_circuit with a plausible slip: the circuit stored as soon
\* as it is constructed, before its initial components are added.
create_circuit_stores_first(cls, file, name, components) ==
    LET cid == cls._next_id
        cls1 == [cls EXCEPT !._next_id = cid + 1]
        built == add_initial_components(NewCircuit(cid, name), components)
        cls2 == [cls1 EXCEPT !._circuits = (cid :> built.circuit) @@ cls1._circuits]
    IN  IF built.exc # "none"
        THEN [cls |-> cls2, file |-> file, exc |-> built.exc, circuit |-> None]
        ELSE [cls |-> cls2, file |-> _save_to_disk(cls2, file), exc |-> "none",
              circuit |-> Some(built.circuit)]

\* CircuitManager.create_circuit (manager.py:38-73): the class state and the file
\* after the call, and the Circuit returned (None when the call raised).
create_circuit(cls, file, name, components) ==
    LET cid == cls._next_id
        cls1 == [cls EXCEPT !._next_id = cid + 1]
        built == add_initial_components(NewCircuit(cid, name), components)
    IN  IF built.exc # "none"
        THEN [cls |-> cls1, file |-> file, exc |-> built.exc, circuit |-> None]
        ELSE LET cls2 == [cls1 EXCEPT !._circuits = (cid :> built.circuit) @@ cls1._circuits]
             IN  [cls |-> cls2, file |-> _save_to_disk(cls2, file), exc |-> "none",
                  circuit |-> Some(built.circuit)]

\* CircuitManager.get_circuit (manager.py:75-86): dict.get, an Optional[Circuit].
get_circuit(cls, cid) == IF cid \in DOMAIN cls._circuits THEN Some(cls._circuits[cid]) ELSE None

\* A variant of update_circuit with a plausible slip: a missing component list
\* treated as an empty one.
update_circuit_replaces_always(cls, file, cid, name, components) ==
    IF get_circuit(cls, cid) = None
    THEN [cls |-> cls, file |-> file, exc |-> "none", circuit |-> None]
    ELSE LET c0 == cls._circuits[cid]
             c1 == IF name # None THEN [c0 EXCEPT !.name = name[1]] ELSE c0
             r  == update_components(c1, IF components # None THEN components[1] ELSE <<>>)
             cls1 == [cls EXCEPT !._circuits[cid] = r.circuit]
         IN  IF r.exc # "none"
             THEN [cls |-> cls1, file |-> file, exc |-> r.exc, circuit |-> None]
             ELSE [cls |-> cls1, file |-> _save_to_disk(cls1, file), exc |-> "none",
                   circuit |-> Some(r.circuit)]

\* CircuitManager.update_circuit (manager.py:88-118).  The Circuit is changed in
\* place, so what update_components did before raising stays in the registry.
update_circuit(cls, file, cid, name, components) ==
    IF get_circuit(cls, cid) = None
    THEN [cls |-> cls, file |-> file, exc |-> "none", circuit |-> None]
    ELSE LET c0 == cls._circuits[cid]
             c1 == IF name # None THEN [c0 EXCEPT !.name = name[1]] ELSE c0
             r  == IF components # None THEN update_components(c1, components[1])
                   ELSE [circuit |-> c1, exc |-> "none", added |-> <<>>]
             cls1 == [cls EXCEPT !._circuits[cid] = r.circuit]
         IN  IF r.exc # "none"
             THEN [cls |-> cls1, file |-> file, exc |-> r.exc, circuit |-> None]
             ELSE [cls |-> cls1, file |-> _save_to_disk(cls1, file), exc |-> "none",
                   circuit |-> Some(r.circuit)]

\* A variant of delete_circuit with a plausible slip: the id counter handed back
\* when the newest circuit is deleted.
delete_circuit_recycles(cls, file, cid) ==
    IF cid \in DOMAIN cls._circuits
    THEN LET cls1 == [cls EXCEPT !._circuits = Del(cls._circuits, cid),
                                 !._next_id = IF cid = cls._next_id - 1 THEN cid
                                              ELSE cls._next_id]
         IN  [cls |-> cls1, file |-> _save_to_disk(cls1, file), result |-> TRUE]
    ELSE [cls |-> cls, file |-> file, result |-> FALSE]

\* CircuitManager.delete_circuit (manager.py:120-139).
delete_circuit(cls, file, cid) ==
    IF cid \in DOMAIN cls._circuits
    THEN LET cls1 == [cls EXCEPT !._circuits = Del(cls._circuits, cid)]
         IN  [cls |-> cls1, file |-> _save_to_disk(cls1, file), result |-> TRUE]
    ELSE [cls |-> cls, file |-> file, result |-> FALSE]

\* What a handler hands back: a body, an HTTPException, or an exception of the code.
Returns(body) == [exc |-> "none", body |-> body]
HTTPException(status_code, detail) ==
    [exc |-> "HTTPException", status_code |-> status_code, detail |-> detail]
Raises(exc) == [exc |-> exc]
CircuitNotFound(cid) == "Circuit " \o ToString(cid) \o " not found"

\* ------------------------------------------------------------------ registry inputs

RegistryNames == {None, Some("Amp")}

\* Initial component lists of a create: none, a well-formed one, one without a type.
InitialLists == {None, Some(<<EntryR>>), Some(<<EntryNoType>>)}

\* Component lists of an update: none, a well-formed one, one that stops midway.
UpdateLists == {None, Some(<<Entryc>>), Some(<<EntryR, EntryNoNodes>>)}

\* Bodies of POST /{circuit_id}/components: ComponentSchema requires type and nodes.
ComponentBodies == {EntryNamed, Entryc}

\* Ids a caller may name: every id issued so far and the one not issued yet.
Cids(next) == 1..next

\* Versions a caller may ask for: none, and 1 up to one past the current version.
Versions(circs, cid) ==
    {None} \cup {Some(v) : v \in 1..(IF cid \in DOMAIN circs THEN circs[cid].version + 1 ELSE 1)}

\* Component names a caller may name: those of the live list and one that is not.
NamesToRemove(circs, cid) ==
    {"X1"} \cup (IF cid \in DOMAIN circs
                 THEN {circs[cid].components[i].name : i \in 1..Len(circs[cid].components)}
                 ELSE {})

RegistrySimRequest == [analysis |-> "operating_point", params |-> NoParams]

\* ------------------------------------------------------------------ api.py over CircuitManager

\* The process serves one front end; each has its own registry.
InitRegistry ==
    /\ circuit = NewCircuit(1, None)
    /\ op = [name |-> "__init__"]
    /\ ret = [exc |-> "none"]
    /\ issued = [t \in InitialTypes |-> <<>>]
    /\ server \in {"api", "mcp"}
    /\ \E persistence_path \in {None, Some("data/circuits.json")} :
          /\ server = "mcp" => persistence_path = None
          /\ NewRegistries(persistence_path)

ApiBusy == Work(CircuitManager._circuits, CircuitManager._next_id) >= MaxWork

\* api.create_circuit (api.py:30-46) over CircuitManager.create_circuit, which a
\* library caller may also hand entries the request schema would refuse.
ApiCreateCircuit ==
    \E name \in RegistryNames, components \in InitialLists :
        LET r == create_circuit(CircuitManager, disk, name, components) IN
        /\ server = "api" /\ ~ApiBusy
        /\ CircuitManager' = r.cls
        /\ disk' = r.file
        /\ op' = [name |-> "create_circuit", circuit_name |-> name, components |-> components]
        /\ ret' = IF r.exc = "none" THEN Returns(to_dict(r.circuit[1])) ELSE Raises(r.exc)
        /\ created_ids' = IF r.exc = "none" THEN Append(created_ids, r.circuit[1].id)
                          ELSE created_ids
        /\ UNCHANGED <<cvars, server, mcp_server, deleted_ids>>

\* A variant of api.get_circuit with a plausible slip: the live components
\* returned under whatever version the history holds.
api_get_circuit_live_components(cls, circuit_id, version) ==
    LET found == get_circuit(cls, circuit_id) IN
    IF found = None THEN HTTPException(404, CircuitNotFound(circuit_id))
    ELSE LET c == found[1]
             hits == {i \in 1..Len(c.history) : Some(c.history[i].version) = version}
         IN  IF version = None \/ version = Some(c.version) THEN Returns(to_dict(c))
             ELSE IF hits # {}
                  THEN Returns([id |-> c.id, name |-> c.name, version |-> version[1],
                                components |-> c.components])
             ELSE HTTPException(404, "Version not found")

\* api.get_circuit (api.py:60-89): the response to GET /{circuit_id}?version=.
api_get_circuit(cls, circuit_id, version) ==
    LET found == get_circuit(cls, circuit_id) IN
    IF found = None THEN HTTPException(404, CircuitNotFound(circuit_id))
    ELSE LET c == found[1]
             hits == {i \in 1..Len(c.history) : Some(c.history[i].version) = version}
         IN  IF version = None \/ version = Some(c.version) THEN Returns(to_dict(c))
             ELSE IF hits # {}
                  THEN LET record == c.history[CHOOSE i \in hits : \A j \in hits : i <= j]
                       IN  Returns([id |-> c.id, name |-> c.name, version |-> record.version,
                                    components |-> record.components])
             ELSE HTTPException(404, "Version not found")

ApiGetCircuit ==
    \E cid \in Cids(CircuitManager._next_id) :
    \E version \in Versions(CircuitManager._circuits, cid) :
        /\ server = "api"
        /\ op' = [name |-> "get_circuit", circuit_id |-> cid, version |-> version]
        /\ ret' = api_get_circuit(CircuitManager, cid, version)
        /\ UNCHANGED <<cvars, rvars>>

\* api.update_circuit (api.py:92-117) over CircuitManager.update_circuit.
ApiUpdateCircuit ==
    \E cid \in Cids(CircuitManager._next_id) :
    \E name \in RegistryNames, components \in UpdateLists :
        LET r == update_circuit(CircuitManager, disk, cid, name, components) IN
        /\ server = "api" /\ ~ApiBusy
        /\ CircuitManager' = r.cls
        /\ disk' = r.file
        /\ op' = [name |-> "update_circuit", circuit_id |-> cid, circuit_name |-> name,
                  components |-> components]
        /\ ret' = IF r.exc # "none" THEN Raises(r.exc)
                  ELSE IF r.circuit = None THEN HTTPException(404, CircuitNotFound(cid))
                  ELSE Returns(to_dict(r.circuit[1]))
        /\ UNCHANGED <<cvars, server, mcp_server, created_ids, deleted_ids>>

\* api.rename_circuit (api.py:120-135): the name is a required query parameter.
ApiRenameCircuit ==
    \E cid \in Cids(CircuitManager._next_id) :
    \E name \in RegistryNames \ {None} :
        LET found == get_circuit(CircuitManager, cid) IN
        /\ server = "api"
        /\ op' = [name |-> "rename_circuit", circuit_id |-> cid, circuit_name |-> name]
        /\ IF found = None
           THEN /\ ret' = HTTPException(404, CircuitNotFound(cid))
                /\ UNCHANGED CircuitManager
           ELSE /\ CircuitManager' = [CircuitManager EXCEPT !._circuits[cid].name = name[1]]
                /\ ret' = Returns(to_dict(CircuitManager'._circuits[cid]))
        /\ UNCHANGED <<cvars, server, disk, mcp_server, created_ids, deleted_ids>>

\* api.delete_circuit (api.py:138-149) over CircuitManager.delete_circuit.
ApiDeleteCircuit ==
    \E cid \in Cids(CircuitManager._next_id) :
        LET r == delete_circuit(CircuitManager, disk, cid) IN
        /\ server = "api"
        /\ CircuitManager' = r.cls
        /\ disk' = r.file
        /\ op' = [name |-> "delete_circuit", circuit_id |-> cid]
        /\ ret' = IF r.result THEN Returns([detail |-> "Circuit deleted"])
                  ELSE HTTPException(404, CircuitNotFound(cid))
        /\ deleted_ids' = IF r.result THEN deleted_ids \cup {cid} ELSE deleted_ids
        /\ UNCHANGED <<cvars, server, mcp_server, created_ids>>

\* api.add_component (api.py:152-175): the body's name is popped and dropped.
ApiAddComponent ==
    \E cid \in Cids(CircuitManager._next_id) :
    \E component \in ComponentBodies :
        LET found == get_circuit(CircuitManager, cid) IN
        /\ server = "api" /\ ~ApiBusy
        /\ op' = [name |-> "add_component", circuit_id |-> cid, component |-> component]
        /\ IF found = None
           THEN /\ ret' = HTTPException(404, CircuitNotFound(cid))
                /\ UNCHANGED CircuitManager
           ELSE LET r == add_component(found[1], component.type[1], component.nodes[1],
                                       component.value, component.parameters)
                IN  /\ CircuitManager' = [CircuitManager EXCEPT !._circuits[cid] = r.circuit]
                    /\ ret' = Returns(to_dict(r.circuit))
        /\ UNCHANGED <<cvars, server, disk, mcp_server, created_ids, deleted_ids>>

\* api.remove_component (api.py:178-195).
ApiRemoveComponent ==
    \E cid \in Cids(CircuitManager._next_id) :
    \E component_name \in NamesToRemove(CircuitManager._circuits, cid) :
        LET found == get_circuit(CircuitManager, cid) IN
        /\ server = "api" /\ ~ApiBusy
        /\ op' = [name |-> "remove_component", circuit_id |-> cid,
                  component_name |-> component_name]
        /\ IF found = None
           THEN /\ ret' = HTTPException(404, CircuitNotFound(cid))
                /\ UNCHANGED CircuitManager
           ELSE LET r == remove_component(found[1], component_name)
                IN  /\ CircuitManager' = [CircuitManager EXCEPT !._circuits[cid] = r.circuit]
                    /\ ret' = IF r.result THEN Returns(to_dict(r.circuit))
                              ELSE HTTPException(404, "Component not found")
        /\ UNCHANGED <<cvars, server, disk, mcp_server, created_ids, deleted_ids>>

\* api.simulate_circuit (api.py:198-224): ValueError becomes 400, the rest 500.
ApiSimulateCircuit ==
    \E cid \in Cids(CircuitManager._next_id) :
    \E solver \in {"ok", "setup_fails"} :
        LET found == get_circuit(CircuitManager, cid)
            r == simulate(found[1], RegistrySimRequest.analysis, RegistrySimRequest.params,
                          solver)
        IN
        /\ server = "api"
        /\ op' = [name |-> "simulate_circuit", circuit_id |-> cid]
        /\ ret' = IF found = None THEN HTTPException(404, CircuitNotFound(cid))
                  ELSE IF r.exc = "none" THEN Returns(r)
                  ELSE IF r.exc = "ValueError" THEN HTTPException(400, r.msg)
                  ELSE HTTPException(500, "Simulation failed: " \o r.msg)
        /\ UNCHANGED <<cvars, rvars>>

\* ------------------------------------------------------------------ mcp_server.py

McpBusy == Work(mcp_server.circuits, mcp_server.next_circuit_id) >= MaxWork

McpError(message) == Returns([error |-> message])

\* mcp_server.create_circuit (mcp_server.py:48-78): the id counter moves after the
\* circuit is stored, so a create that raises leaves the module state as it was.
McpCreateCircuit ==
    \E name \in RegistryNames, components \in InitialLists :
        LET cid == mcp_server.next_circuit_id
            built == add_initial_components(NewCircuit(cid, name), components)
        IN
        /\ server = "mcp" /\ ~McpBusy
        /\ op' = [name |-> "create_circuit", circuit_name |-> name, components |-> components]
        /\ IF built.exc # "none"
           THEN /\ ret' = Raises(built.exc)
                /\ UNCHANGED <<mcp_server, created_ids>>
           ELSE /\ mcp_server' = [circuits |-> (cid :> built.circuit) @@ mcp_server.circuits,
                                  next_circuit_id |-> cid + 1]
                /\ ret' = Returns(to_dict(built.circuit))
                /\ created_ids' = Append(created_ids, to_dict(built.circuit).id)
        /\ UNCHANGED <<cvars, server, CircuitManager, disk, deleted_ids>>

\* mcp_server.add_component (mcp_server.py:80-114).
McpAddComponent ==
    \E cid \in Cids(mcp_server.next_circuit_id) :
    \E a \in {[type |-> "R", nodes |-> <<"1", "2">>, value |-> Some(1000), parameters |-> None],
              [type |-> "c", nodes |-> <<"2", "0">>, value |-> Some(1), parameters |-> None]} :
        /\ server = "mcp" /\ ~McpBusy
        /\ op' = [name |-> "add_component", circuit_id |-> cid, component |-> a]
        /\ IF cid \notin DOMAIN mcp_server.circuits
           THEN /\ ret' = McpError(CircuitNotFound(cid))
                /\ UNCHANGED mcp_server
           ELSE LET r == add_component(mcp_server.circuits[cid], a.type, a.nodes, a.value,
                                       a.parameters)
                IN  /\ mcp_server' = [mcp_server EXCEPT !.circuits[cid] = r.circuit]
                    /\ ret' = Returns(to_dict(r.circuit))
        /\ UNCHANGED <<cvars, server, CircuitManager, disk, created_ids, deleted_ids>>

\* mcp_server.remove_component (mcp_server.py:116-137).
McpRemoveComponent ==
    \E cid \in Cids(mcp_server.next_circuit_id) :
    \E component_name \in NamesToRemove(mcp_server.circuits, cid) :
        /\ server = "mcp" /\ ~McpBusy
        /\ op' = [name |-> "remove_component", circuit_id |-> cid,
                  component_name |-> component_name]
        /\ IF cid \notin DOMAIN mcp_server.circuits
           THEN /\ ret' = McpError(CircuitNotFound(cid))
                /\ UNCHANGED mcp_server
           ELSE LET r == remove_component(mcp_server.circuits[cid], component_name)
                IN  /\ mcp_server' = [mcp_server EXCEPT !.circuits[cid] = r.circuit]
                    /\ ret' = IF r.result THEN Returns(to_dict(r.circuit))
                              ELSE McpError("Component not found")
        /\ UNCHANGED <<cvars, server, CircuitManager, disk, created_ids, deleted_ids>>

\* mcp_server.update_circuit (mcp_server.py:139-169).
McpUpdateCircuit ==
    \E cid \in Cids(mcp_server.next_circuit_id) :
    \E name \in RegistryNames, components \in UpdateLists :
        /\ server = "mcp" /\ ~McpBusy
        /\ op' = [name |-> "update_circuit", circuit_id |-> cid, circuit_name |-> name,
                  components |-> components]
        /\ IF cid \notin DOMAIN mcp_server.circuits
           THEN /\ ret' = McpError(CircuitNotFound(cid))
                /\ UNCHANGED mcp_server
           ELSE LET c0 == mcp_server.circuits[cid]
                    c1 == IF name # None THEN [c0 EXCEPT !.name = name[1]] ELSE c0
                    r  == IF components # None THEN update_components(c1, components[1])
                          ELSE [circuit |-> c1, exc |-> "none", added |-> <<>>]
                IN  /\ mcp_server' = [mcp_server EXCEPT !.circuits[cid] = r.circuit]
                    /\ ret' = IF r.exc # "none" THEN Raises(r.exc)
                              ELSE Returns(to_dict(r.circuit))
        /\ UNCHANGED <<cvars, server, CircuitManager, disk, created_ids, deleted_ids>>

\* mcp_server.simulate_circuit (mcp_server.py:171-204): every failure is an error body.
McpSimulateCircuit ==
    \E cid \in Cids(mcp_server.next_circuit_id) :
    \E solver \in {"ok", "setup_fails"} :
        LET r == simulate(mcp_server.circuits[cid], RegistrySimRequest.analysis,
                          RegistrySimRequest.params, solver)
        IN
        /\ server = "mcp"
        /\ op' = [name |-> "simulate_circuit", circuit_id |-> cid]
        /\ ret' = IF cid \notin DOMAIN mcp_server.circuits THEN McpError(CircuitNotFound(cid))
                  ELSE IF r.exc = "none" THEN Returns(r)
                  ELSE IF r.exc = "ValueError" THEN McpError(r.msg)
                  ELSE McpError("Simulation failed: " \o r.msg)
        /\ UNCHANGED <<cvars, rvars>>

\* mcp_server.delete_circuit (mcp_server.py:281-298).
McpDeleteCircuit ==
    \E cid \in Cids(mcp_server.next_circuit_id) :
        /\ server = "mcp"
        /\ op' = [name |-> "delete_circuit", circuit_id |-> cid]
        /\ IF cid \notin DOMAIN mcp_server.circuits
           THEN /\ ret' = McpError(CircuitNotFound(cid))
                /\ UNCHANGED <<mcp_server, deleted_ids>>
           ELSE /\ mcp_server' = [mcp_server EXCEPT !.circuits = Del(@, cid)]
                /\ ret' = Returns([message |-> "Circuit deleted successfully"])
                /\ deleted_ids' = deleted_ids \cup {cid}
        /\ UNCHANGED <<cvars, server, CircuitManager, disk, created_ids>>

\* mcp_server.get_circuit_details (mcp_server.py:320-335) and get_circuit_versions
\* (mcp_server.py:337-362).
McpGetCircuit ==
    \E cid \in Cids(mcp_server.next_circuit_id) :
    \E what \in {"get_circuit_details", "get_circuit_versions"} :
        /\ server = "mcp"
        /\ op' = [name |-> what, circuit_id |-> cid]
        /\ ret' = IF cid \notin DOMAIN mcp_server.circuits THEN McpError(CircuitNotFound(cid))
                  ELSE LET c == mcp_server.circuits[cid] IN
                       IF what = "get_circuit_details" THEN Returns(to_dict(c))
                       ELSE Returns([id |-> c.id, name |-> c.name,
                                     current_version |-> c.version,
                                     versions |-> Append([i \in 1..Len(c.history) |->
                                                              c.history[i].version],
                                                         c.version)])
        /\ UNCHANGED <<cvars, rvars>>

NextRegistry ==
    \/ ApiCreateCircuit
    \/ ApiGetCircuit
    \/ ApiUpdateCircuit
    \/ ApiRenameCircuit
    \/ ApiDeleteCircuit
    \/ ApiAddComponent
    \/ ApiRemoveComponent
    \/ ApiSimulateCircuit
    \/ McpCreateCircuit
    \/ McpAddComponent
    \/ McpRemoveComponent
    \/ McpUpdateCircuit
    \/ McpSimulateCircuit
    \/ McpDeleteCircuit
    \/ McpGetCircuit

SpecRegistry == InitRegistry /\ [][NextRegistry]_vars

\* ------------------------------------------------------------------ persistence

\* The loop over a circuit record's components (manager.py:201-207): comp["type"]
\* and comp["nodes"] raise KeyError on a record that lacks the key.
RECURSIVE load_components(_, _)
load_components(c, comps) ==
    IF comps = <<>> THEN [circuit |-> c, exc |-> "none"]
    ELSE LET comp == Head(comps) IN
         IF "type" \notin DOMAIN comp \/ "nodes" \notin DOMAIN comp
         THEN [circuit |-> c, exc |-> "KeyError"]
         ELSE load_components(add_component(c, comp.type, comp.nodes, comp.value,
                                            comp.parameters).circuit,
                              Tail(comps))

\* The loop over the file's circuits (manager.py:191-210), in the order of the
\* file, which is the order the ids were issued in: a circuit joins the registry
\* once all its components are added, and the loop stops at the first exception.
RECURSIVE load_circuits(_, _, _)
load_circuits(cls, circuits, keys) ==
    IF keys = {} THEN [cls |-> cls, exc |-> "none"]
    ELSE LET cid_str == CHOOSE k \in keys : \A j \in keys : int(k) <= int(j)
             circuit_data == circuits[cid_str]
             cid == int(cid_str)
             c0 == NewCircuit(cid, Some(circuit_data.name))
             r  == load_components([c0 EXCEPT !.version = circuit_data.version],
                                   circuit_data.components)
         IN  IF r.exc # "none" THEN [cls |-> cls, exc |-> r.exc]
             ELSE load_circuits([cls EXCEPT !._circuits = (cid :> r.circuit) @@ @],
                                circuits, keys \ {cid_str})

\* CircuitManager._load_from_disk (manager.py:174-210): the class state after the
\* call and the exception that left it.  A file that is not JSON makes json.load
\* raise before anything is assigned.
_load_from_disk(cls, file) ==
    IF cls._persistence_path = None \/ file = None THEN [cls |-> cls, exc |-> "none"]
    ELSE LET data == file[1] IN
         IF "next_id" \notin DOMAIN data THEN [cls |-> cls, exc |-> "JSONDecodeError"]
         ELSE load_circuits([cls EXCEPT !._next_id = data.next_id, !._circuits = <<>>],
                            data.circuits, DOMAIN data.circuits)

\* CircuitManager.initialize (manager.py:22-36): an exception of the load is logged
\* and swallowed; `warning` is the exception logged.
initialize(cls, file, persistence_path) ==
    LET cls1 == [cls EXCEPT !._persistence_path = persistence_path]
        r == _load_from_disk(cls1, file)
    IN  IF persistence_path = None THEN [cls |-> cls1, warning |-> "none"]
        ELSE [cls |-> r.cls, warning |-> r.exc]

\* A deployment with a persistence file, served by api.py.
InitPersistence ==
    /\ circuit = NewCircuit(1, None)
    /\ op = [name |-> "__init__"]
    /\ ret = [exc |-> "none"]
    /\ issued = [t \in InitialTypes |-> <<>>]
    /\ server = "api"
    /\ NewRegistries(Some("data/circuits.json"))

\* The process starts again: the class variables are those of a fresh import
\* (manager.py:18-20), and initialize is called with the deployment's path.
Initialize ==
    LET fresh == [_circuits |-> <<>>, _next_id |-> 1, _persistence_path |-> None]
        r == initialize(fresh, disk, CircuitManager._persistence_path)
    IN  /\ CircuitManager' = r.cls
        /\ op' = [name |-> "initialize",
                  persistence_path |-> CircuitManager._persistence_path]
        /\ ret' = [exc |-> "none", warning |-> r.warning]
        /\ created_ids' = <<>>
        /\ deleted_ids' = {}
        /\ UNCHANGED <<cvars, server, disk, mcp_server>>

\* What may happen to the file between two runs of the process: it is overwritten
\* with text that is not JSON, or a component record in it loses its "type" key.
unparsable == [text |-> "not json"]

without_type(comp) == [k \in DOMAIN comp \ {"type"} |-> comp[k]]

FileDamaged ==
    /\ disk # None
    /\ "next_id" \in DOMAIN disk[1]
    /\ \/ disk' = Some(unparsable)
       \/ \E key \in DOMAIN disk[1].circuits :
             /\ disk[1].circuits[key].components # <<>>
             /\ "type" \in DOMAIN disk[1].circuits[key].components[1]
             /\ disk' = Some([disk[1] EXCEPT !.circuits[key].components[1] =
                                                 without_type(@)])
    /\ op' = [name |-> "file_damaged"]
    /\ ret' = [exc |-> "none"]
    /\ UNCHANGED <<cvars, server, CircuitManager, mcp_server, created_ids, deleted_ids>>

NextPersistence ==
    \/ ApiCreateCircuit
    \/ ApiUpdateCircuit
    \/ ApiRenameCircuit
    \/ ApiDeleteCircuit
    \/ ApiAddComponent
    \/ ApiRemoveComponent
    \/ Initialize
    \/ FileDamaged

SpecPersistence == InitPersistence /\ [][NextPersistence]_vars

\* ------------------------------------------------------------------ the event loop

\* A variant of list_circuit_versions with a plausible slip: every number from 1
\* to the current version listed (list(range(1, circuit.version + 1))).
api_list_circuit_versions_every_number(cls, circuit_id) ==
    LET found == get_circuit(cls, circuit_id) IN
    IF found = None THEN HTTPException(404, CircuitNotFound(circuit_id))
    ELSE Returns([v \in 1..found[1].version |-> v])

\* api.list_circuit_versions (api.py:347-364): the versions of the history, in
\* order, followed by the current version.
api_list_circuit_versions(cls, circuit_id) ==
    LET found == get_circuit(cls, circuit_id) IN
    IF found = None THEN HTTPException(404, CircuitNotFound(circuit_id))
    ELSE LET c == found[1] IN
         Returns([i \in 1..Len(c.history) |-> c.history[i].version] \o <<c.version>>)

\* A variant of awaits with a plausible slip: every statement of a handler awaited,
\* so that the event loop may serve another request after each of them.
awaits_after_every_statement(pc) == TRUE

\* Whether the handler in flight hands control back to the event loop after the
\* statement at pc: the handlers of api.py that work on a circuit are coroutines
\* without an await, and the methods they call are plain functions.
awaits(pc) == FALSE

\* Requests on the one circuit the event loop serves.  Bodies of the replacement
\* are lists of entries; the second stops midway at an entry without nodes.
LoopLists == {<<>>, <<Entryc>>, <<EntryR, EntryNoNodes>>, <<Entryc, EntryR>>}

LoopWrites ==
    {[name |-> "update_circuit", components |-> l] : l \in LoopLists}
    \cup {[name |-> "add_component", component |-> b] : b \in ComponentBodies}
    \cup {[name |-> "remove_component", component_name |-> n] : n \in {"R1", "C1", "X1"}}

LoopReads ==
    {[name |-> "get_circuit", version |-> v] : v \in {None} \cup {Some(k) : k \in 1..MaxVersion}}
    \cup {[name |-> "list_circuit_versions"]}

\* The first statement of a handler that changes the circuit.
first_statement(request) ==
    CASE request.name = "update_circuit"   -> "_increment_version(save_components=True)"
      [] request.name = "add_component"    -> "components.append"
      [] request.name = "remove_component" -> "components.pop"

\* One statement of the handler in flight (circuit.py:76-97, 110-119, 129-145):
\* the circuit after it, the statement that follows, the entries still to add and
\* the exception raised, if any.
statement(c, task) ==
    LET goes(c1, pc, left, exc) == [circuit |-> c1, pc |-> pc, left |-> left, exc |-> exc]
        pc == task.pc
    IN  CASE pc = "_increment_version(save_components=True)" ->
                goes(_increment_version(c, TRUE), "components = []", task.left, "none")
          [] pc = "components = []" ->
                goes([c EXCEPT !.components = <<>>],
                     IF task.left = <<>> THEN "return" ELSE "add_component", task.left, "none")
          [] pc = "add_component" ->
                LET comp == Head(task.left) IN
                IF comp.type = None \/ comp.nodes = None
                THEN goes(c, "return", <<>>, "KeyError")
                ELSE goes(add_component(c, comp.type[1], comp.nodes[1], comp.value,
                                        comp.parameters).circuit,
                          IF Tail(task.left) = <<>> THEN "return" ELSE "add_component",
                          Tail(task.left), "none")
          [] pc = "components.append" ->
                LET body == task.request.component
                    r == add_component(c, body.type[1], body.nodes[1], body.value,
                                       body.parameters).circuit
                IN  goes([r EXCEPT !.version = c.version], "_increment_version()", <<>>, "none")
          [] pc = "components.pop" ->
                LET r == remove_component(c, task.request.component_name) IN
                IF r.result
                THEN goes([r.circuit EXCEPT !.version = c.version], "_increment_version()",
                          <<>>, "none")
                ELSE goes(c, "return", <<>>, "HTTPException")
          [] pc = "_increment_version()" ->
                goes(_increment_version(c, FALSE), "return", <<>>, "none")

\* The response of a handler that only reads the circuit.
read(c, request) ==
    LET cls == [_circuits |-> (c.id :> c)] IN
    IF request.name = "get_circuit" THEN api_get_circuit(cls, c.id, request.version)
    ELSE api_list_circuit_versions(cls, c.id)

\* The circuit a handler that changes it leaves when it runs from its first
\* statement to its return.
completed(c, request) ==
    CASE request.name = "update_circuit" -> update_components(c, request.components).circuit
      [] request.name = "add_component" ->
            add_component(c, request.component.type[1], request.component.nodes[1],
                          request.component.value, request.component.parameters).circuit
      [] request.name = "remove_component" ->
            remove_component(c, request.component_name).circuit
      [] OTHER -> c

\* One circuit behind api.py; no handler is in flight.
InitLoop ==
    /\ circuit = NewCircuit(1, None)
    /\ op = [name |-> "__init__", pc |-> "return", request |-> [name |-> "__init__"],
             before |-> NewCircuit(1, None), left |-> <<>>]
    /\ ret = [exc |-> "none", request |-> [name |-> "__init__"]]
    /\ issued = [t \in InitialTypes |-> <<>>]
    /\ server = "api"
    /\ NewRegistries(None)

\* The event loop takes the next request when the handler in flight has returned
\* or awaits.
LoopIdle == op.pc = "return" \/ awaits(op.pc)

\* The loop starts the handler of a request that changes the circuit.
LoopAccept ==
    \E request \in LoopWrites :
        /\ LoopIdle
        /\ circuit.version + 1 + (IF request.name = "update_circuit"
                                  THEN Len(request.components) ELSE 0) <= MaxVersion
        /\ op' = [name |-> request.name, pc |-> first_statement(request),
                  request |-> request, before |-> circuit,
                  left |-> IF request.name = "update_circuit" THEN request.components
                           ELSE <<>>]
        /\ UNCHANGED <<circuit, ret, issued, rvars>>

\* The handler in flight runs its next statement; on return it answers.
LoopStatement ==
    /\ op.pc # "return"
    /\ LET s == statement(circuit, op) IN
       /\ circuit' = s.circuit
       /\ op' = [op EXCEPT !.pc = s.pc, !.left = s.left]
       /\ ret' = IF s.pc # "return" THEN ret
                 ELSE IF s.exc # "none" THEN [exc |-> s.exc, request |-> op.request]
                 ELSE [exc |-> "none", request |-> op.request, body |-> to_dict(s.circuit)]
    /\ UNCHANGED <<issued, rvars>>

\* The loop serves a request that only reads: get_circuit, with or without a
\* version, and list_circuit_versions run from start to return in one turn.
LoopRead ==
    \E request \in LoopReads :
        /\ LoopIdle
        /\ ret' = read(circuit, request) @@ [request |-> request]
        /\ UNCHANGED <<circuit, op, issued, rvars>>

NextLoop ==
    \/ LoopAccept
    \/ LoopStatement
    \/ LoopRead

SpecLoop == InitLoop /\ [][NextLoop]_vars

\* ------------------------------------------------------------------ claims

Names(comps) == {comps[i].name : i \in 1..Len(comps)}

\* C1: for every component type T, the k-th name add_component has returned for T is
\* T followed by k (T1, T2, ... in the order of the adds), whatever was removed in
\* between; so no name is returned twice for a type.
C1_KthAddIsNamedTk ==
    \A t \in DOMAIN issued :
        /\ \A k \in 1..Len(issued[t]) : issued[t][k] = t \o ToString(k)
        /\ \A j, k \in 1..Len(issued[t]) : j # k => issued[t][j] # issued[t][k]

\* An add has just returned the second name of a type whose first name is no longer live.
C1_Witness ==
    /\ op.name = "add_component"
    /\ \E t \in DOMAIN issued :
        /\ Len(issued[t]) >= 2
        /\ ret.component.name = issued[t][Len(issued[t])]
        /\ issued[t][1] \notin Names(circuit.components)

C4_VersionCountsReplacementsOnly ==
    /\ circuit.version = 1 + Len(circuit.history)
    /\ \A i \in 1..Len(circuit.history) : circuit.history[i].version = i

\* C5: every update_components call appends exactly one history entry, holding the
\* version and the component list of just before the call; when the call returns,
\* the live list is the list given, entry by entry in the order given (type in
\* upper case, nodes, value and parameters as given).
C5_ReplaceSnapshotsThenReplaces ==
    [][ op'.name = "update_components" =>
          LET new == op'.new_components IN
          /\ circuit'.history
               = circuit.history \o << [version |-> circuit.version,
                                        components |-> circuit.components] >>
          /\ ret'.exc = "none" =>
               /\ Len(circuit'.components) = Len(new)
               /\ \A i \in 1..Len(new) :
                    /\ circuit'.components[i].type = Upper(new[i].type[1])
                    /\ circuit'.components[i].nodes = new[i].nodes[1]
                    /\ circuit'.components[i].value = new[i].value
                    /\ circuit'.components[i].parameters = new[i].parameters ]_vars

\* A replacement of a non-empty component list by a non-empty list has returned.
C5_Witness ==
    /\ op.name = "update_components" /\ ret.exc = "none"
    /\ Len(op.new_components) >= 1
    /\ circuit.history[Len(circuit.history)].components # <<>>

\* C6: the component list stored in a history entry never changes: every entry
\* present before a step is present after it with the same component list.
C6_SnapshotsAreIsolated ==
    [][ \A i \in 1..Len(circuit.history) :
          /\ i <= Len(circuit'.history)
          /\ circuit'.history[i].components = circuit.history[i].components ]_vars

\* A component has been added to a circuit whose latest snapshot differs from the
\* live list.
C6_Witness ==
    /\ op.name = "add_component"
    /\ Len(circuit.history) >= 1
    /\ circuit.history[Len(circuit.history)].components # circuit.components

\* C7: history is append-only and written only by bulk replacement: every step
\* keeps the entries there were, in order, and add_component, remove_component,
\* rename, to_dict and simulate leave history as it was.
C7_HistoryAppendOnly ==
    [][ /\ Len(circuit'.history) >= Len(circuit.history)
        /\ SubSeq(circuit'.history, 1, Len(circuit.history)) = circuit.history
        /\ op'.name \in {"add_component", "remove_component", "rename", "to_dict",
                         "simulate"}
             => circuit'.history = circuit.history ]_vars

\* A simulation has run on a circuit that has two history entries and live components.
C7_Witness ==
    op.name = "simulate" /\ Len(circuit.history) = 2 /\ circuit.components # <<>>

\* C8: remove_component(name) returns true exactly when a live component has that
\* name; on true exactly one component, of that name, is gone, the others are kept
\* in order and the version is one higher; on false the circuit is unchanged.
C8_RemoveFoundOrUnchanged ==
    [][ op'.name = "remove_component" =>
          LET n == op'.component_name
              old == circuit.components
          IN  /\ ret'.result = (n \in Names(old))
              /\ ret'.result =>
                   /\ circuit'.version = circuit.version + 1
                   /\ \E i \in 1..Len(old) :
                        /\ old[i].name = n
                        /\ circuit'.components
                             = SubSeq(old, 1, i - 1) \o SubSeq(old, i + 1, Len(old))
              /\ ~ret'.result => circuit' = circuit ]_vars

\* A component has been removed by name and another one is still live.
C8_Witness ==
    op.name = "remove_component" /\ ret.result /\ circuit.components # <<>>

\* C9: an update_components call that fails (an entry lacks its type or nodes)
\* leaves components, version, history and per-type counters as they were.
C9_FailedReplaceChangesNothing ==
    [][ (op'.name = "update_components" /\ ret'.exc # "none") => circuit' = circuit ]_vars

\* C10: add_component rejects a component whose node list is empty or of the wrong
\* length for its type (2 for R, C, L, V, I, D; 3 for Q), or that lacks a value its
\* type requires (R, C, L, I), and the rejected add changes nothing in the circuit.
C10_MalformedAddRejected ==
    [][ op'.name = "add_component" =>
          LET type == Upper(op'.type)
              arity == IF type = "Q" THEN 3 ELSE 2
              malformed ==
                  \/ op'.nodes = <<>>
                  \/ (type \in {"R", "C", "L", "V", "I", "D", "Q"} /\ Len(op'.nodes) # arity)
                  \/ (type \in {"R", "C", "L", "I"} /\ op'.value = None)
          IN  malformed => (ret'.exc # "none" /\ circuit' = circuit) ]_vars

\* C14: to_dict changes no field of the circuit, and what it returns is a copy of
\* its own: a caller that appends to the returned component list, or writes a
\* field of a component in it, changes the returned dict and leaves the circuit
\* as it was.
C14_SnapshotIsACopy ==
    [][ /\ op'.name = "to_dict" => circuit' = circuit
        /\ op'.name = "write_snapshot"
           => /\ circuit' = circuit
              /\ ret'.dict.components # ret.dict.components
              /\ ret'.dict.components # circuit'.components ]_vars

\* A caller has overwritten the value of the first component of a returned dict.
C14_Witness ==
    /\ op.name = "write_snapshot" /\ op.how = "set_value"
    /\ Len(circuit.components) >= 2
    /\ ret.dict.components[1].value = Some(99)

\* C17: no two components of the live list have the same name, whatever type
\* strings the adds were called with.
C17_LiveNamesUnique ==
    \A i, j \in 1..Len(circuit.components) :
        i # j => circuit.components[i].name # circuit.components[j].name

\* C19: no call lowers a per-type counter or drops one, and every component a bulk
\* replacement writes gets a number at or above the counter's value before the
\* call, so its name is none of the names issued before.
C19_CountersNeverDecrease ==
    [][ /\ \A t \in DOMAIN circuit.next_ids :
              /\ t \in DOMAIN circuit'.next_ids
              /\ circuit'.next_ids[t] >= circuit.next_ids[t]
        /\ op'.name = "update_components"
           => \A i \in 1..Len(circuit'.components) :
                 LET comp == circuit'.components[i]
                     before == IF comp.type \in DOMAIN circuit.next_ids
                               THEN circuit.next_ids[comp.type] ELSE 1
                 IN  /\ \E k \in before..(circuit'.next_ids[comp.type] - 1) :
                            comp.name = comp.type \o ToString(k)
                     /\ \A t \in DOMAIN issued : \A n \in 1..Len(issued[t]) :
                            comp.name # issued[t][n] ]_vars

\* A replacement has written a resistor over a live list that held R1: it is R2.
C19_Witness ==
    /\ op.name = "update_components" /\ ret.exc = "none"
    /\ circuit.components # <<>>
    /\ circuit.components[1].name = "R2"
    /\ circuit.history[Len(circuit.history)].components # <<>>

\* C20: an add whose type is given in lower case stores the upper-case type, takes
\* its number from the upper-case type's counter and advances that counter, keeps
\* no counter under the lower-case string, and returns an upper-case name.
C20_TypeIsUpperCased ==
    [][ (op'.name = "add_component" /\ op'.type \in {"r", "z"})
        => LET T == IF op'.type = "r" THEN "R" ELSE "Z"
               k == IF T \in DOMAIN circuit.next_ids THEN circuit.next_ids[T] ELSE 1
               stored == circuit'.components[Len(circuit'.components)]
           IN  /\ stored = ret'.component
               /\ stored.type = T
               /\ stored.name = T \o ToString(k)
               /\ circuit'.next_ids[T] = k + 1
               /\ op'.type \notin DOMAIN circuit'.next_ids ]_vars

\* A lower-case "r" has been added after an upper-case "R" and is named R2.
C20_Witness ==
    /\ op.name = "add_component" /\ op.type = "r"
    /\ Len(circuit.components) = 2
    /\ circuit.components[1].name = "R1"
    /\ circuit.components[2].name = "R2"

\* ------------------------------------------------------------------ registry claims

\* The registry the process serves, and a response that says the circuit is unknown.
Registry == IF server = "api" THEN CircuitManager._circuits ELSE mcp_server.circuits

ReportsNotFound(r, cid) ==
    IF r.exc = "HTTPException"
    THEN r.status_code = 404 /\ r.detail = CircuitNotFound(cid)
    ELSE /\ r.exc = "none"
         /\ "error" \in DOMAIN r.body
         /\ r.body.error = CircuitNotFound(cid)

\* C11: the ids returned by create are pairwise different, whatever creates and
\* deletes came before: no create returns an id an earlier create returned, the
\* ids of deleted circuits included.
C11_IdsNeverReused ==
    \A i, j \in 1..Len(created_ids) : i # j => created_ids[i] # created_ids[j]

\* A create has just returned, after the circuit created last before it was deleted.
C11_Witness ==
    /\ op.name = "create_circuit" /\ ret.exc = "none"
    /\ Len(created_ids) >= 2
    /\ created_ids[Len(created_ids) - 1] \in deleted_ids

\* C12: a deleted id is never live again; every call naming an id that was deleted
\* (get, update, rename, add, remove, simulate, delete, versions) reports the
\* circuit as not found and leaves the registry and the file as they were; and
\* so does a delete of any id that is not live.
C12_DeletedStaysGone ==
    [][ /\ deleted_ids' \cap DOMAIN Registry' = {}
        /\ ("circuit_id" \in DOMAIN op'
            /\ \/ op'.circuit_id \in deleted_ids
               \/ op'.name = "delete_circuit" /\ op'.circuit_id \notin DOMAIN Registry)
           => /\ ReportsNotFound(ret', op'.circuit_id)
              /\ UNCHANGED <<CircuitManager, mcp_server, disk>> ]_vars

\* An update names a deleted id while another circuit is live.
C12_Witness ==
    /\ op.name = "update_circuit"
    /\ op.circuit_id \in deleted_ids
    /\ DOMAIN Registry # {}

C16_VersionLookup ==
    [][ (op'.name = "get_circuit" /\ op'.version # None
         /\ op'.circuit_id \in DOMAIN Registry)
        => LET c == Registry[op'.circuit_id]
               v == op'.version[1]
               entries == {i \in 1..Len(c.history) : c.history[i].version = v}
           IN  /\ UNCHANGED <<CircuitManager, mcp_server, disk>>
               /\ IF v = c.version
                  THEN /\ ret'.exc = "none"
                       /\ ret'.body.version = v
                       /\ ret'.body.components = c.components
                  ELSE IF entries # {}
                  THEN /\ ret'.exc = "none"
                       /\ ret'.body.version = v
                       /\ \A i \in entries : ret'.body.components = c.history[i].components
                  ELSE ret'.exc = "HTTPException" /\ ret'.status_code = 404 ]_vars

\* A lookup of an older version has returned components that are not the live ones.
C16_Witness ==
    /\ op.name = "get_circuit" /\ op.version # None
    /\ op.circuit_id \in DOMAIN Registry
    /\ ret.exc = "none"
    /\ ret.body.version < Registry[op.circuit_id].version
    /\ ret.body.components # Registry[op.circuit_id].components
    /\ ret.body.components # <<>>

\* What a component list written by a create, an update or an add looks like once
\* stored: entry i of `written` with its type in upper case and a generated name.
StoresExactly(components, written) ==
    /\ Len(components) = Len(written)
    /\ \A i \in 1..Len(written) :
          /\ components[i].type = Upper(written[i].type[1])
          /\ components[i].nodes = written[i].nodes[1]
          /\ components[i].value = written[i].value
          /\ components[i].parameters = written[i].parameters
          /\ \E k \in 1..(MaxWork + 1) : components[i].name = components[i].type \o ToString(k)

\* C15: the snapshot a handler returns right after a successful mutation (create,
\* update, rename, add, remove) holds the circuit's id, name and version as they
\* are now and the live components in order; after a create or an update with a
\* list it holds exactly the entries of that list, and after an add the entry
\* added is its last one, each with the type, nodes, value and parameters
\* submitted and the name generated.
C15_SnapshotAfterMutation ==
    [][ (/\ op'.name \in {"create_circuit", "update_circuit", "rename_circuit",
                          "add_component", "remove_component"}
         /\ ret'.exc = "none"
         /\ "id" \in DOMAIN ret'.body)
        => LET d == ret'.body
               c == Registry'[d.id]
           IN  /\ d.id \in DOMAIN Registry'
               /\ "circuit_id" \in DOMAIN op' => d.id = op'.circuit_id
               /\ d.id = c.id /\ d.name = c.name /\ d.version = c.version
               /\ d.components = c.components
               /\ (op'.name \in {"create_circuit", "update_circuit"}
                   /\ op'.components # None)
                  => StoresExactly(d.components, op'.components[1])
               /\ op'.name = "create_circuit" /\ op'.components = None
                  => d.components = <<>>
               /\ op'.name = "add_component"
                  => /\ Len(d.components) = Len(Registry[d.id].components) + 1
                     /\ StoresExactly(<<d.components[Len(d.components)]>>,
                                      IF server = "api" THEN <<op'.component>>
                                      ELSE <<[type |-> Some(op'.component.type),
                                              nodes |-> Some(op'.component.nodes),
                                              value |-> op'.component.value,
                                              parameters |-> op'.component.parameters]>>
                                      ) ]_vars

\* An update has replaced a resistor by a capacitor submitted in lower case.
C15_Witness ==
    /\ op.name = "update_circuit" /\ ret.exc = "none"
    /\ op.components = Some(<<Entryc>>)
    /\ "id" \in DOMAIN ret.body
    /\ ret.body.version > 2
    /\ ret.body.components[1].name = "C1"

\* C18: a component submitted with an explicit name is stored under that name.
C18_ExplicitNameIsStored ==
    [][ (/\ op'.name = "add_component" /\ server = "api"
         /\ ret'.exc = "none"
         /\ op'.component.name # None)
        => LET components == Registry'[op'.circuit_id].components
           IN  components[Len(components)].name = op'.component.name[1] ]_vars

\* ------------------------------------------------------------------ persistence claims

\* C21: when the file holds what saving the registry writes, the registry loaded
\* from it at the next start has the same next id and the same circuits, each with
\* the same id, name, version and components (names included).
C21_SaveLoadRoundTrip ==
    [][ (/\ op'.name = "initialize"
         /\ disk # None
         /\ disk = _save_to_disk(CircuitManager, disk))
        => /\ CircuitManager'._next_id = CircuitManager._next_id
           /\ DOMAIN CircuitManager'._circuits = DOMAIN CircuitManager._circuits
           /\ \A cid \in DOMAIN CircuitManager._circuits :
                 json(to_dict(CircuitManager'._circuits[cid]))
                     = json(to_dict(CircuitManager._circuits[cid])) ]_vars

\* C22: when the load at start fails, the registry holds no circuit.
C22_FailedLoadStartsEmpty ==
    [][ (op'.name = "initialize" /\ ret'.warning # "none")
        => DOMAIN CircuitManager'._circuits = {} ]_vars

\* ------------------------------------------------------------------ simulate claims

GroundSpellings == {"0", "gnd", "GND", "Ground", "ground"}

\* The node a given node stands for in the netlist.
Canonical(node) == IF node \in GroundSpellings THEN gnd ELSE node

\* A part no primitive can be built from: a resistor with one node or no value.
Untranslatable(comp) == comp.type = "R" /\ (Len(comp.nodes) < 2 \/ comp.value = None)

\* The names of the primitives a component may put into the netlist.
PrimNames(comp) == {comp.name, comp.name \o "_in_p", comp.name \o "_in_n"}

\* The elements of a netlist that carry the given name.
Named(netlist, name) == {e \in 1..Len(netlist) : netlist[e].name = name}

\* C23: a request with an unsupported analysis kind, a dc request without source,
\* start, stop or step, or a transient request without step_time or end_time ends
\* in a ValueError with the solver neither set up nor run, and with the circuit
\* as it was.
C23_ValidationBeforeSolver ==
    [][ (/\ op'.name = "simulate"
         /\ LET a == op'.analysis
                p == op'.sim_params
            IN  \/ a \notin {"operating_point", "dc", "DC", "ac", "transient"}
                \/ a \in {"dc", "DC"} /\ (p.source = None \/ p.start = None
                                          \/ p.stop = None \/ p.step = None)
                \/ a = "transient" /\ (p.step_time = None \/ p.end_time = None))
        => /\ ret'.exc = "ValueError"
           /\ ~ret'.solver_created
           /\ ~ret'.solver_called
           /\ circuit' = circuit ]_vars

\* C24: when the solver fails, while it is set up or while it runs the analysis of
\* a valid request on a translatable circuit, the caller gets the ValueError
\* "Simulation failed: <the solver's message>" and never the solver's own exception.
C24_SolverFailureIsSimulationError ==
    [][ (/\ op'.name = "simulate"
         /\ \A i \in 1..Len(circuit.components) : ~Untranslatable(circuit.components[i])
         /\ \/ op'.solver = "setup_fails"
            \/ op'.solver = "analysis_fails" /\ op'.analysis \in {"operating_point", "ac"})
        => /\ ret'.exc = "ValueError"
           /\ ret'.msg = "Simulation failed: solver" ]_vars

\* C25: when a component cannot be translated, the pass stops at the first such
\* component: the ValueError names it, the netlist holds primitives of the
\* components before it only, and the solver is neither set up nor run.
C25_TranslationStopsAtFirstFailure ==
    [][ (/\ op'.name = "simulate"
         /\ \E i \in 1..Len(circuit.components) : Untranslatable(circuit.components[i]))
        => LET comps == circuit.components
               first == CHOOSE i \in 1..Len(comps) :
                            /\ Untranslatable(comps[i])
                            /\ \A j \in 1..(i - 1) : ~Untranslatable(comps[j])
           IN  /\ ret'.exc = "ValueError"
               /\ ret'.msg = "Error adding component"
               /\ ret'.component = comps[first].name
               /\ ~ret'.solver_created
               /\ ~ret'.solver_called
               /\ \A e \in 1..Len(ret'.netlist) :
                     \E j \in 1..(first - 1) : ret'.netlist[e].name \in PrimNames(comps[j]) ]_vars

\* The second of two components could not be translated, after the first was.
C25_Witness ==
    /\ op.name = "simulate"
    /\ Len(circuit.components) = 2
    /\ ret.msg = "Error adding component"
    /\ ret.component = circuit.components[2].name
    /\ ret.netlist # <<>>

\* C26: in the netlist, the nodes of every two-terminal part translated are the
\* part's nodes, with "0", "gnd", "GND", "Ground" and "ground" replaced by the one
\* ground reference and every other node as it was given.
C26_GroundSpellingsNormalised ==
    [][ op'.name = "simulate"
        => \A i \in 1..Len(circuit.components) :
              LET comp == circuit.components[i] IN
              (/\ comp.type \in {"R", "C", "V"}
               /\ \A j \in 1..i : ~Untranslatable(circuit.components[j]))
              => /\ Cardinality(Named(ret'.netlist, comp.name)) = 1
                 /\ \A e \in Named(ret'.netlist, comp.name) :
                       ret'.netlist[e].nodes =
                           [k \in 1..2 |-> Canonical(comp.nodes[k])] ]_vars

\* A netlist was built from parts grounded as "GND" and as "Ground".
C26_Witness ==
    /\ op.name = "simulate" /\ ret.exc = "none"
    /\ Len(circuit.components) = 2
    /\ circuit.components[1].nodes = <<"2", "GND">>
    /\ circuit.components[2].nodes = <<"2", "Ground">>
    /\ ret.netlist[1].nodes = <<"2", "0">>
    /\ ret.netlist[2].nodes = <<"2", "0">>

C28_UnknownUvxIsSkipped ==
    [][ (/\ op'.name = "simulate"
         /\ \A i \in 1..Len(circuit.components) : ~Untranslatable(circuit.components[i])
         /\ \E i \in 1..Len(circuit.components) :
               circuit.components[i].parameters = Some([uvx_type |-> "pll"]))
        => /\ ret'.msg # "Error adding component"
           /\ \A i \in 1..Len(circuit.components) :
                 LET comp == circuit.components[i] IN
                 /\ comp.parameters = Some([uvx_type |-> "pll"])
                    => \A e \in 1..Len(ret'.netlist) : ret'.netlist[e].name \notin PrimNames(comp)
                 /\ comp.type \in {"R", "C", "V"} => Named(ret'.netlist, comp.name) # {}
           /\ op'.solver # "setup_fails" => ret'.solver_created ]_vars

\* A resistor that follows a U part of an unknown kind reached the solver alone.
C28_Witness ==
    /\ op.name = "simulate" /\ ret.exc = "none"
    /\ Len(circuit.components) = 2
    /\ circuit.components[1].parameters = Some([uvx_type |-> "pll"])
    /\ Len(ret.netlist) = 1
    /\ ret.netlist[1].name = circuit.components[2].name
    /\ ret.solver_called

\* C29: the nodes map of a result has no entry under a spelling of ground, and has
\* an entry for every other node the solver reported, whatever the analysis kind.
C29_NoGroundInResults ==
    [][ (op'.name = "simulate" /\ ret'.exc = "none")
        => LET nodes == DOMAIN ret'.results[1].nodes
               reported == solver_output(ret'.netlist, op'.solver).nodes
           IN  /\ nodes \cap GroundSpellings = {}
               /\ \A n \in reported \ GroundSpellings : n \in nodes ]_vars

\* A dc sweep of a circuit grounded as "Ground", with the solver reporting node 0.
C29_Witness ==
    /\ op.name = "simulate" /\ op.analysis = "DC" /\ op.solver = "ok_reports_ground"
    /\ ret.exc = "none"
    /\ \E i \in 1..Len(circuit.components) : circuit.components[i].nodes = <<"2", "Ground">>
    /\ DOMAIN ret.results[1].nodes = {"2"}

\* C30: in an ac result every node entry and every branch entry has exactly the
\* fields magnitude and phase_degrees, each with one value per frequency point.
C30_AcEntriesHaveMagnitudeAndPhaseDegrees ==
    [][ (op'.name = "simulate" /\ op'.analysis = "ac" /\ ret'.exc = "none")
        => LET r == ret'.results[1]
               points == Len(r.frequency.values)
               entries == {r.nodes[n] : n \in DOMAIN r.nodes}
                          \cup {r.branches[b] : b \in DOMAIN r.branches}
           IN  \A entry \in entries :
                  /\ DOMAIN entry = {"magnitude", "phase_degrees"}
                  /\ Len(entry.magnitude) = points
                  /\ Len(entry.phase_degrees) = points ]_vars

\* ------------------------------------------------------------------ event loop claims

ModelOf(comp) ==
    IF comp.parameters # None /\ "model" \in DOMAIN comp.parameters[1]
    THEN comp.parameters[1].model
    ELSE IF comp.type = "D" THEN "default_diode" ELSE "default_npn"

\* C32: a pass over a list in which two diodes (or two transistors) name the same
\* model succeeds: no component is refused, and each of the devices is in the
\* netlist once.
C32_SharedModelDeclaredOnce ==
    [][ (/\ op'.name = "simulate"
         /\ \E i, j \in 1..Len(circuit.components) :
               /\ i < j
               /\ circuit.components[i].type \in {"D", "Q"}
               /\ circuit.components[j].type = circuit.components[i].type
               /\ ModelOf(circuit.components[j]) = ModelOf(circuit.components[i]))
        => /\ ret'.msg # "Error adding component"
           /\ \A i \in 1..Len(circuit.components) :
                 Cardinality(Named(ret'.netlist, circuit.components[i].name)) = 1 ]_vars

\* ------------------------------------------------------------------ frame claims

\* C33: simulate leaves the circuit as it was, whatever the analysis asked for and
\* however the call ends (a result, a refused request, a component that cannot be
\* translated, a solver failure): name, version, components, history and the
\* per-type counters are the same after the call as before.
C33_SimulateIsReadOnly ==
    [][ op'.name = "simulate" => circuit' = circuit ]_vars

\* simulate has returned a result for a circuit that has a history and a
\* component on a ground node spelled "gnd".
C33_Witness ==
    /\ op.name = "simulate" /\ ret.exc = "none"
    /\ circuit.history # <<>>
    /\ \E i \in 1..Len(circuit.components) : circuit.components[i].nodes = <<"2", "gnd">>

\* C34: add_component puts the new component at the end of the list and
\* remove_component takes out the named one only: the other components are the
\* same records (name, type, nodes, value, parameters) in the same order.
C34_OthersKeepPlaceAndFields ==
    [][ LET old == circuit.components
            new == circuit'.components
        IN  /\ op'.name = "add_component"
               => /\ Len(new) = Len(old) + 1
                  /\ new[Len(new)] = ret'.component
                  /\ \A i \in 1..Len(old) : new[i] = old[i]
            /\ (op'.name = "remove_component" /\ ret'.result)
               => \E i \in 1..Len(old) :
                     /\ old[i].name = op'.component_name
                     /\ Len(new) = Len(old) - 1
                     /\ \A j \in 1..Len(new) : new[j] = IF j < i THEN old[j] ELSE old[j + 1]
            /\ (op'.name = "remove_component" /\ ~ret'.result) => new = old ]_vars

\* The first of two components has been removed and the second is the list.
C34_Witness ==
    /\ op.name = "remove_component" /\ ret.result
    /\ Len(circuit.components) = 1
    /\ circuit.version = 4
    /\ \E t \in DOMAIN issued :
          /\ Len(issued[t]) = 2
          /\ issued[t][1] = op.component_name
          /\ issued[t][2] = circuit.components[1].name

\* ------------------------------------------------------------------ version claims

\* C35: the versions recorded in the history grow strictly in history order and
\* are all below the current version; the version list (the history's versions
\* followed by the current one) holds no version twice.
C35_HistoryVersionsIncrease ==
    LET h == circuit.history
        versions == [i \in 1..Len(h) |-> h[i].version] \o <<circuit.version>>
    IN  /\ \A i, j \in 1..Len(h) : i < j => h[i].version < h[j].version
        /\ \A i \in 1..Len(h) : h[i].version < circuit.version
        /\ \A i, j \in 1..Len(versions) : i # j => versions[i] # versions[j]

\* Two replacements with an add between them: the history holds versions 1 and 3.
C35_Witness ==
    /\ Len(circuit.history) = 2
    /\ circuit.history[1].version = 1
    /\ circuit.history[2].version = 3
    /\ circuit.version = 4

\* A version lookup is being answered: the step serves get_circuit with a version.
LookupStep == ret'.request.name = "get_circuit" /\ op' = op /\ ret'.request.version # None

\* The versions list_circuit_versions returns for the circuit.
Listed(c) ==
    LET body == read(c, [name |-> "list_circuit_versions"]).body
    IN  {body[i] : i \in 1..Len(body)}

NotFound(r) == r.exc = "HTTPException" /\ r.status_code = 404

C37_FileFollowsRegistry ==
    [][ (/\ op'.name \in {"create_circuit", "update_circuit", "rename_circuit",
                          "delete_circuit", "add_component", "remove_component"}
         /\ ret'.exc = "none")
        => /\ disk' # None
           /\ "circuits" \in DOMAIN disk'[1]
           /\ DOMAIN disk'[1].circuits = {str(cid) : cid \in DOMAIN CircuitManager'._circuits}
           /\ \A cid \in DOMAIN CircuitManager'._circuits :
                 disk'[1].circuits[str(cid)] = json(to_dict(CircuitManager'._circuits[cid])) ]_vars

\* ------------------------------------------------------------------ create claims

\* C38: a create that fails while it adds its initial components stores nothing:
\* the live circuits and the file are what they were; and every create that
\* succeeds, after failed ones too, returns an id that no create returned
\* before and that is not live, and adds that one circuit to the live set.
C38_FailedCreateStoresNothing ==
    [][ op'.name = "create_circuit"
        => /\ ret'.exc # "none" => Registry' = Registry /\ disk' = disk
           /\ ret'.exc = "none"
              => LET id == ret'.body.id IN
                 /\ \A i \in 1..Len(created_ids) : created_ids[i] # id
                 /\ id \notin deleted_ids
                 /\ id \notin DOMAIN Registry
                 /\ DOMAIN Registry' = DOMAIN Registry \cup {id}
                 /\ \A cid \in DOMAIN Registry : Registry'[cid] = Registry[cid] ]_vars

\* A create has succeeded after one that failed on an entry without a type:
\* CircuitManager returns id 2 as its first id and holds that circuit only.
C38_Witness ==
    /\ server = "api"
    /\ op.name = "create_circuit" /\ ret.exc = "none"
    /\ created_ids = <<2>>
    /\ deleted_ids = {}
    /\ DOMAIN CircuitManager._circuits = {2}

\* ------------------------------------------------------------------ claims on parts without a rule

\* The uvx_type of a U component (circuit.py:284).
UvxType(comp) ==
    IF comp.parameters # None /\ "uvx_type" \in DOMAIN comp.parameters[1]
    THEN comp.parameters[1].uvx_type ELSE "opamp"

\* A component the loop has no rule for: a type without a branch, an op-amp with
\* fewer than three nodes.
WithoutRule(comp) ==
    \/ comp.type \notin {"R", "C", "L", "V", "I", "D", "Q", "U"}
    \/ comp.type = "U" /\ UvxType(comp) = "opamp" /\ Len(comp.nodes) < 3

\* A U component with too few nodes for its kind.
TooFewNodes(comp) ==
    /\ comp.type = "U"
    /\ \/ UvxType(comp) = "comparator" /\ Len(comp.nodes) < 3
       \/ UvxType(comp) \in {"adc", "dac"} /\ Len(comp.nodes) < 2

\* C39: a component of type M or X or of a type that is no type code, and an
\* op-amp with fewer than three nodes, put nothing into the netlist and raise
\* nothing; a comparator with fewer than three nodes and an adc or dac with fewer
\* than two end the pass with a ValueError that names the component, before the
\* solver is set up.
C39_NoRuleIsDroppedTooFewNodesAborts ==
    [][ op'.name = "simulate"
        => LET comps == circuit.components
               short == {i \in 1..Len(comps) : TooFewNodes(comps[i])}
           IN  IF short # {}
               THEN LET first == CHOOSE i \in short : \A j \in short : i <= j IN
                    /\ ret'.exc = "ValueError"
                    /\ ret'.msg = "Error adding component"
                    /\ ret'.component = comps[first].name
                    /\ ~ret'.solver_created
               ELSE /\ ret'.msg # "Error adding component"
                    /\ \A i \in 1..Len(comps) :
                          /\ WithoutRule(comps[i])
                             => \A e \in 1..Len(ret'.netlist) :
                                   ret'.netlist[e].name \notin PrimNames(comps[i])
                          /\ comps[i].type = "R" => Named(ret'.netlist, comps[i].name) # {} ]_vars

\* A pass over a part of type M and a resistor has put the resistor alone into
\* the netlist and the solver has run.
C39_Witness ==
    /\ op.name = "simulate" /\ ret.exc = "none"
    /\ Len(circuit.components) = 2
    /\ circuit.components[1].type = "M"
    /\ circuit.components[2].type = "R"
    /\ Len(ret.netlist) = 1
    /\ ret.solver_called

====
